---- MODULE Spec2Model ----
(***************************************************************************)
(* A model of the provider-routing and facade core of chi_llm:             *)
(*   - ProviderRouter (chi_llm/providers/router.py): tag filter, priority  *)
(*     sort, sequential fallback over provider profiles;                   *)
(*   - MicroLLM (chi_llm/core.py): construction, the process-wide runtime  *)
(*     singleton and the generation lock;                                  *)
(*   - ModelManager (chi_llm/models.py): default_model resolution;         *)
(*   - the backend adapters (chi_llm/providers/*.py): what a call returns  *)
(*     or raises;                                                          *)
(*   - utils.load_config and the set operation (chi_llm/utils.py,          *)
(*     tui/store.py, cli_modules/ui.py): merge order, scopes, file syntax. *)
(*   - the Model Registry and recommend_model (chi_llm/models.py);         *)
(*   - the provider setter (cli_modules/providers.py, tui/store.py);       *)
(*   - the environment overrides of the integer keys (utils.py, models.py).*)
(***************************************************************************)
EXTENDS Integers, Sequences, FiniteSets, TLC

(***************************************************************************)
(* Bounds of the model.                                                    *)
(***************************************************************************)
MaxProfiles == 2
MaxFacades == 2
MaxThreads == 2

(***************************************************************************)
(* ProviderRouter: profiles and registry.                                  *)
(***************************************************************************)
\* router.py:87  int(p.get("priority", 100))
DefaultPriority == 100

\* Provider types a profile may name.  The default registry has factories
\* for lmstudio and ollama only; 'local' intentionally lacks one.
ProfileTypes == {"ollama", "local"}

default_registry == {"lmstudio", "ollama"}

TagSets == {{}, {"fast"}, {"quality"}}

\* The value stored under "priority": absent, an integer, or something
\* int() rejects (e.g. the string "high").
PriorityValues ==
    { [given |-> FALSE, intlike |-> TRUE,  val |-> 0],
      [given |-> TRUE,  intlike |-> TRUE,  val |-> 5],
      [given |-> TRUE,  intlike |-> TRUE,  val |-> 200],
      [given |-> TRUE,  intlike |-> FALSE, val |-> 0] }

\* A list entry that is not a mapping at all (e.g. a bare string).
NonMapping ==
    [mapping |-> FALSE, type |-> "local", tags |-> {},
     priority |-> [given |-> FALSE, intlike |-> TRUE, val |-> 0]]

ProfileUniverse ==
    { [mapping |-> TRUE, type |-> t, tags |-> g, priority |-> p] :
        t \in ProfileTypes, g \in TagSets, p \in PriorityValues }
    \cup {NonMapping}

ProfileLists ==
    UNION { [1..n -> ProfileUniverse] : n \in 0..MaxProfiles }

VARIABLES
    profiles,      \* ProviderRouter.profiles
    rpc,           \* position of the router call: idle, iter, call, done
    op,            \* generate | chat | complete
    wanted,        \* set(tags or [])
    candidates,    \* result of _sorted_profiles: indices into profiles
    idx,           \* position of _iter_candidates in candidates
    constructed,   \* log: indices whose factory was called, in order
    invoked,       \* log: adapter calls [profile, ok, text], in order
    outcome,       \* none | returned | RuntimeError | AttributeError | ValueError
    result         \* text returned by the call, or NoText

routerVars == <<profiles, rpc, op, wanted, candidates, idx, constructed,
                invoked, outcome, result>>

VARIABLES
    env,                \* os.environ: the CHI_LLM_* variables and PATH
    fs,                 \* configuration files and the model cache directory
    sequential,         \* TRUE: facades are constructed one after another
    pc,                 \* per facade: position of the thread that owns it
    self,               \* per facade: the attributes of the MicroLLM object
    _model_instance,    \* core.py:30  0 is None, n > 0 the n-th loaded runtime
    _model_lock,        \* core.py:31  0 is free, i the holder
    _generation_lock,   \* core.py:32  0 is free, i the holder
    downloads,          \* log of hf_hub_download calls
    loads               \* log of successful Llama(...) loads

facadeVars == <<env, fs, sequential, pc, self, _model_instance, _model_lock,
                _generation_lock, downloads, loads>>

VARIABLES
    cpc,           \* last step of the session: idle | resolved | set | written
    config_path,   \* the config_path argument of the last utils.load_config
    merged,        \* what the last utils.load_config returned
    _mgr,          \* the ModelManager of the session: config and flags
    written        \* log of the set operations: scope, key, value

configVars == <<cpc, config_path, merged, _mgr, written>>

VARIABLES
    available_ram, \* models.py:508-516  what _get_available_ram returns, in GB
    best_model     \* id of the model recommend_model returned, once called

registryVars == <<available_ram, best_model>>

VARIABLES
    environ,       \* os.environ: the variables that carry an integer
    lower,         \* the integer keys as the lower-precedence sources set them
    overridden,    \* the integer keys after the environment overrides
    applied        \* which resolvers have applied their overrides

overrideVars == <<environ, lower, overridden, applied>>

vars == <<routerVars, facadeVars, configVars, registryVars, overrideVars>>

NoText == "<none>"
Texts == {"", "OK"}
Ops == {"generate", "chat", "complete"}

\* a sort key under which a missing priority sorts first
PriorityKeyMissingFirst(p) == IF p.priority.given THEN p.priority.val ELSE 0

\* router.py:87  the sort key
PriorityKey(p) == IF p.priority.given THEN p.priority.val ELSE DefaultPriority

\* router.py:84-85  the tag filter
TagMatch(p, w) == w = {} \/ (p.tags \cap w) # {}

\* router.py:83-86  indices kept by the filter, in list order
RECURSIVE FilterFrom(_, _, _)
FilterFrom(ps, w, i) ==
    IF i > Len(ps) THEN <<>>
    ELSE IF TagMatch(ps[i], w) THEN <<i>> \o FilterFrom(ps, w, i + 1)
         ELSE FilterFrom(ps, w, i + 1)

\* insertion of index x into a list already sorted by key; equal keys keep
\* their order (Python's sorted is stable)
RECURSIVE InsertByKey(_, _, _)
InsertByKey(ps, s, x) ==
    IF s = <<>> THEN <<x>>
    ELSE IF PriorityKey(ps[Head(s)]) <= PriorityKey(ps[x])
         THEN <<Head(s)>> \o InsertByKey(ps, Tail(s), x)
         ELSE <<x>> \o s

RECURSIVE SortByKey(_, _)
SortByKey(ps, s) ==
    IF s = <<>> THEN <<>>
    ELSE InsertByKey(ps, SortByKey(ps, SubSeq(s, 1, Len(s) - 1)), s[Len(s)])

\* router.py:83-84  p.get on an entry that is not a mapping
FilterRaises(ps) == \E i \in 1..Len(ps) : ~ps[i].mapping

\* router.py:87  int() of a priority that is not integer-like
SortRaises(ps, w) ==
    \E i \in 1..Len(ps) : TagMatch(ps[i], w) /\ ~ps[i].priority.intlike

\* router.py:78-87
_sorted_profiles(ps, w) == SortByKey(ps, FilterFrom(ps, w, 1))

\* router.py:36-37, 44-50, 57-58: entry of generate/chat/complete; the first
\* next() of the generator runs _sorted_profiles to completion.
RouterCall(o, tags) ==
    /\ rpc = "idle"
    /\ op' = o
    /\ wanted' = tags
    /\ constructed' = <<>>
    /\ invoked' = <<>>
    /\ result' = NoText
    /\ idx' = 1
    /\ IF FilterRaises(profiles)
       THEN /\ outcome' = "AttributeError"
            /\ rpc' = "done"
            /\ candidates' = <<>>
       ELSE IF SortRaises(profiles, tags)
       THEN /\ outcome' = "ValueError"
            /\ rpc' = "done"
            /\ candidates' = <<>>
       ELSE /\ outcome' = "none"
            /\ rpc' = "iter"
            /\ candidates' = _sorted_profiles(profiles, tags)
    /\ UNCHANGED profiles
    /\ UNCHANGED <<facadeVars, configVars, registryVars, overrideVars>>

\* router.py:68-71  no factory for the type: continue
SkipNoFactory ==
    /\ rpc = "iter"
    /\ idx <= Len(candidates)
    /\ profiles[candidates[idx]].type \notin default_registry
    /\ idx' = idx + 1
    /\ UNCHANGED <<profiles, rpc, op, wanted, candidates, constructed,
                   invoked, outcome, result>>
    /\ UNCHANGED <<facadeVars, configVars, registryVars, overrideVars>>

\* router.py:72-76  factory(profile): yields an adapter or raises
Construct ==
    /\ rpc = "iter"
    /\ idx <= Len(candidates)
    /\ profiles[candidates[idx]].type \in default_registry
    /\ constructed' = Append(constructed, candidates[idx])
    /\ \E raises \in BOOLEAN :
          IF raises
          THEN idx' = idx + 1 /\ rpc' = "iter"
          ELSE idx' = idx /\ rpc' = "call"
    /\ UNCHANGED <<profiles, op, wanted, candidates, invoked, outcome, result>>
    /\ UNCHANGED <<facadeVars, configVars, registryVars, overrideVars>>

\* a dispatch that gives the first failing candidate a second try before it
\* moves on
InvokeWithRetry ==
    /\ rpc = "call"
    /\ \E raises \in BOOLEAN, text \in Texts :
          IF raises
          THEN /\ invoked' = Append(invoked,
                     [profile |-> candidates[idx], ok |-> FALSE, text |-> NoText])
               /\ idx' = IF invoked = <<>> THEN idx ELSE idx + 1
               /\ rpc' = IF invoked = <<>> THEN "call" ELSE "iter"
               /\ UNCHANGED <<outcome, result>>
          ELSE /\ invoked' = Append(invoked,
                     [profile |-> candidates[idx], ok |-> TRUE, text |-> text])
               /\ outcome' = "returned"
               /\ result' = text
               /\ rpc' = "done"
               /\ UNCHANGED idx
    /\ UNCHANGED <<profiles, op, wanted, candidates, constructed>>
    /\ UNCHANGED <<facadeVars, configVars, registryVars, overrideVars>>

\* a dispatch that goes on to the next candidate after one has returned
InvokeEveryCandidate ==
    /\ rpc = "call"
    /\ \E raises \in BOOLEAN, text \in Texts :
          IF raises
          THEN /\ invoked' = Append(invoked,
                     [profile |-> candidates[idx], ok |-> FALSE, text |-> NoText])
               /\ UNCHANGED <<outcome, result>>
          ELSE /\ invoked' = Append(invoked,
                     [profile |-> candidates[idx], ok |-> TRUE, text |-> text])
               /\ outcome' = "returned"
               /\ result' = text
    /\ idx' = idx + 1
    /\ rpc' = IF idx < Len(candidates) THEN "iter" ELSE "done"
    /\ UNCHANGED <<profiles, op, wanted, candidates, constructed>>
    /\ UNCHANGED <<facadeVars, configVars, registryVars, overrideVars>>

\* router.py:38-41, 51-54, 59-62  prov.<op>(...): return its text, or on any
\* exception continue with the next candidate
Invoke ==
    /\ rpc = "call"
    /\ \E raises \in BOOLEAN, text \in Texts :
          IF raises
          THEN /\ invoked' = Append(invoked,
                     [profile |-> candidates[idx], ok |-> FALSE, text |-> NoText])
               /\ idx' = idx + 1
               /\ rpc' = "iter"
               /\ UNCHANGED <<outcome, result>>
          ELSE /\ invoked' = Append(invoked,
                     [profile |-> candidates[idx], ok |-> TRUE, text |-> text])
               /\ outcome' = "returned"
               /\ result' = text
               /\ rpc' = "done"
               /\ UNCHANGED idx
    /\ UNCHANGED <<profiles, op, wanted, candidates, constructed>>
    /\ UNCHANGED <<facadeVars, configVars, registryVars, overrideVars>>

\* router.py:42, 55, 63  raise RuntimeError("All providers failed for <op>()")
Exhausted ==
    /\ rpc = "iter"
    /\ idx > Len(candidates)
    /\ outcome' = "RuntimeError"
    /\ rpc' = "done"
    /\ UNCHANGED <<profiles, op, wanted, candidates, idx, constructed,
                   invoked, result>>
    /\ UNCHANGED <<facadeVars, configVars, registryVars, overrideVars>>

\* the call has returned or raised; the router object is ready for another
RouterReturn ==
    /\ rpc = "done"
    /\ rpc' = "idle"
    /\ UNCHANGED <<profiles, op, wanted, candidates, idx, constructed,
                   invoked, outcome, result>>
    /\ UNCHANGED <<facadeVars, configVars, registryVars, overrideVars>>

RouterNext ==
    \/ \E o \in Ops, tags \in TagSets : RouterCall(o, tags)
    \/ SkipNoFactory
    \/ Construct
    \/ Invoke
    \/ Exhausted
    \/ RouterReturn

(***************************************************************************)
(* Model Registry (models.py) and the legacy default (core.py).            *)
(***************************************************************************)
Unset == "<unset>"

\* core.py:25-26
MODEL_REPO == "lmstudio-community/gemma-3-270m-it-GGUF"
MODEL_FILE == "gemma-3-270m-it-Q4_K_M.gguf"

\* models.py:36-261  three of the registry's entries
MODELS ==
    [ m \in {"gemma-270m", "qwen3-1.7b", "phi3-mini"} |->
        CASE m = "gemma-270m" ->
               [repo |-> "lmstudio-community/gemma-3-270m-it-GGUF",
                filename |-> "gemma-3-270m-it-Q8_0.gguf"]
          [] m = "qwen3-1.7b" ->
               [repo |-> "Qwen/Qwen3-1.7B-GGUF",
                filename |-> "qwen3-1.7b-instruct-q5_k_m.gguf"]
          [] m = "phi3-mini" ->
               [repo |-> "microsoft/Phi-3-mini-4k-instruct-gguf",
                filename |-> "Phi-3-mini-4k-instruct-q4.gguf"] ]

\* an id no registry entry has
UnknownId == "qwen3-1.7"

BuiltinDefault == "gemma-270m"

(***************************************************************************)
(* Configuration sources.                                                  *)
(***************************************************************************)
\* the provider mapping of a configuration; Unset marks an absent key
NoProvider ==
    [type |-> Unset, model |-> Unset, model_path |-> Unset, api_key |-> Unset]

ProviderOf(t, m, mp, k) ==
    [type |-> t, model |-> m, model_path |-> mp, api_key |-> k]

\* a configuration file: whether it exists and is well formed, the syntax
\* it is written in (json | yaml), and the keys it sets
Absent ==
    [exists |-> FALSE, parses |-> FALSE, format |-> "json",
     default_model |-> Unset, allow_global |-> Unset,
     resolution_mode |-> Unset, cache_dir |-> Unset,
     provider |-> NoProvider, provider_profiles |-> Unset]

FileOf(dm, prov, profs) ==
    [exists |-> TRUE, parses |-> TRUE, format |-> "json",
     default_model |-> dm, allow_global |-> Unset,
     resolution_mode |-> Unset, cache_dir |-> Unset,
     provider |-> prov, provider_profiles |-> profs]

\* a process environment with nothing set
EmptyEnv ==
    [CHI_LLM_MODEL |-> Unset, CHI_LLM_CONFIG |-> Unset,
     CHI_LLM_RESOLUTION_MODE |-> Unset, CHI_LLM_ALLOW_GLOBAL |-> Unset,
     CHI_LLM_PROVIDER_TYPE |-> Unset, CHI_LLM_PROVIDER_MODEL |-> Unset,
     CHI_LLM_PROVIDER_MODEL_PATH |-> Unset, CHI_LLM_PROVIDER_API_KEY |-> Unset,
     cli_on_path |-> FALSE]

\* a file system with no configuration file and an empty model cache;
\* local is .chi_llm.json and yaml is .chi_llm.yaml in the working directory,
\* envfile is the file CHI_LLM_CONFIG names, or the mapping it carries inline
EmptyFs ==
    [local |-> Absent, yaml |-> Absent, ancestor |-> Absent,
     envfile |-> Absent, custom |-> Absent, global |-> Absent, cached |-> {}]

(***************************************************************************)
(* ModelManager (models.py).                                               *)
(***************************************************************************)
\* models.py:358-359  every source is read with json.load: a file written
\* in YAML raises there and is skipped as one that does not parse
JsonLoad(file) ==
    IF file.format = "json" THEN file ELSE [file EXCEPT !.parses = FALSE]

\* models.py:305-317  only a file named .chi_llm.json is discovered
Discovered(file) ==
    IF file.exists /\ file.format = "json" THEN file ELSE Absent

\* models.py:293-322  the file behind each named source, Absent when the
\* source has no entry in config_paths or its path does not exist
\* (the walk up to "project" starts in the working directory itself)
SourceFile(f, e, name) ==
    CASE name = "custom"  -> JsonLoad(f.custom)
      [] name = "env"     ->
            IF e.CHI_LLM_CONFIG = "path" THEN JsonLoad(f.envfile) ELSE Absent
      [] name = "local"   -> Discovered(f.local)
      [] name = "project" ->
            IF Discovered(f.local).exists
            THEN f.local ELSE Discovered(f.ancestor)
      [] name = "global"  -> JsonLoad(f.global)

\* models.py:394-410  resolution_mode: the environment, else peeked from the
\* local then the project file, else project-first
PeekResolutionMode(f, e) ==
    IF e.CHI_LLM_RESOLUTION_MODE # Unset THEN e.CHI_LLM_RESOLUTION_MODE
    ELSE LET l == SourceFile(f, e, "local")
             p == SourceFile(f, e, "project")
             valid(x) == x.exists /\ x.parses /\ x.resolution_mode # Unset
         IN IF valid(l) THEN l.resolution_mode
            ELSE IF valid(p) THEN p.resolution_mode
            ELSE "project-first"

\* allow_global taken as enabled whatever the environment and the files say
AllowGlobalAlways(f, e) == TRUE

\* models.py:280-284, 411-423  allow_global: the environment, else peeked
PeekAllowGlobal(f, e) ==
    IF e.CHI_LLM_ALLOW_GLOBAL # Unset THEN e.CHI_LLM_ALLOW_GLOBAL = "1"
    ELSE LET l == SourceFile(f, e, "local")
             p == SourceFile(f, e, "project")
             valid(x) == x.exists /\ x.parses /\ x.allow_global # Unset
         IN IF valid(l) THEN l.allow_global = "true"
            ELSE IF valid(p) THEN p.allow_global = "true"
            ELSE FALSE

\* models.py:343-350  the order in which the file sources are applied
SourcesFor(resolution_mode, allow_global) ==
    (IF resolution_mode = "env-first"
     THEN <<"env", "local", "project", "custom">>
     ELSE <<"local", "project", "env", "custom">>)
    \o (IF allow_global THEN <<"global">> ELSE <<>>)

\* models.py:275-291, 340-350  the order a new ModelManager applies
SourceOrder(f, e) ==
    SourcesFor(PeekResolutionMode(f, e), PeekAllowGlobal(f, e))

\* models.py:425-429  explicit when the loaded mapping has a default_model;
\* config.update(loaded) lets the later source replace the key
_merge_loaded_config(c, loaded) ==
    IF loaded.default_model # Unset
    THEN [default_model |-> loaded.default_model, explicit |-> TRUE]
    ELSE c

\* models.py:353-366  apply the sources in order, skipping a file that is
\* missing or fails to parse
RECURSIVE ApplySources(_, _, _, _)
ApplySources(c, f, e, order) ==
    IF order = <<>> THEN c
    ELSE LET file == SourceFile(f, e, Head(order))
             c2 == IF file.exists /\ file.parses
                   THEN _merge_loaded_config(c, file) ELSE c
         IN ApplySources(c2, f, e, Tail(order))

\* models.py:368-373  CHI_LLM_MODEL overrides when it is a registry id
ApplyEnvModel(c, e) ==
    IF e.CHI_LLM_MODEL # Unset /\ e.CHI_LLM_MODEL \in DOMAIN MODELS
    THEN [default_model |-> e.CHI_LLM_MODEL, explicit |-> TRUE]
    ELSE c

\* models.py:324-392  ModelManager.load_config: default_model and whether it
\* is explicit, for a given order of the sources
load_config_in(f, e, order) ==
    LET c == ApplyEnvModel(
                ApplySources([default_model |-> Unset, explicit |-> FALSE],
                             f, e, order), e)
    IN IF c.default_model = Unset
       THEN [c EXCEPT !.default_model = BuiltinDefault]
       ELSE c

\* models.py:275-291  ModelManager(): load_config with the flags of __init__
load_config(f, e) == load_config_in(f, e, SourceOrder(f, e))

\* models.py:431-432
has_explicit_default(mgr) == mgr.explicit

\* the keys of a configuration mapping, and the value that marks a key the
\* mapping does not have
ConfigKeys ==
    {"default_model", "allow_global", "resolution_mode", "cache_dir",
     "provider", "provider_profiles"}

Missing(k) == IF k = "provider" THEN NoProvider ELSE Unset

EmptyConfig == [k \in ConfigKeys |-> Missing(k)]

\* models.py:429  self.config.update(loaded): each key of the loaded mapping
\* replaces the key of the configuration, whole
config_update(c, loaded) ==
    [k \in ConfigKeys |-> IF loaded[k] # Missing(k) THEN loaded[k] ELSE c[k]]

\* models.py:353-366  the configuration mapping after the file sources
RECURSIVE UpdateFrom(_, _, _, _)
UpdateFrom(c, f, e, order) ==
    IF order = <<>> THEN c
    ELSE LET file == SourceFile(f, e, Head(order))
             c2 == IF file.exists /\ file.parses
                   THEN config_update(c, file) ELSE c
         IN UpdateFrom(c2, f, e, Tail(order))

\* models.py:293-322  _get_config_paths(custom_path): the names that get an
\* entry in config_paths; local and project only when the file is there
\* at that moment
_get_config_paths(custom_path, f, e) ==
    (IF custom_path # Unset THEN {"custom"} ELSE {})
    \cup (IF e.CHI_LLM_CONFIG # Unset THEN {"env"} ELSE {})
    \cup (IF Discovered(f.local).exists THEN {"local"} ELSE {})
    \cup (IF Discovered(f.local).exists \/ Discovered(f.ancestor).exists
          THEN {"project"} ELSE {})
    \cup {"global"}

\* the files a manager with these config_paths can reach: no custom file
\* without a custom path, no local or project file that was not there when
\* the paths were collected
Reachable(paths, f) ==
    [f EXCEPT !.custom = IF "custom" \in paths THEN f.custom ELSE Absent,
              !.local = IF "local" \in paths THEN f.local ELSE Absent,
              !.ancestor = IF "project" \in paths THEN f.ancestor ELSE Absent]

\* models.py:324-392  the manager after load_config ran with the given flags
ManagerWith(resolution_mode, allow_global, was_explicit, paths, f, e) ==
    LET order == SourcesFor(resolution_mode, allow_global)
        r == Reachable(paths, f)
        d == load_config_in(r, e, order)
    IN [config |-> [UpdateFrom(EmptyConfig, r, e, order)
                       EXCEPT !.default_model = d.default_model],
        config_paths |-> paths,
        resolution_mode |-> resolution_mode,
        allow_global |-> allow_global,
        _explicit_default |-> was_explicit \/ d.explicit]

\* models.py:275-291  ModelManager(config_path)
ModelManager(custom_path, f, e) ==
    LET paths == _get_config_paths(custom_path, f, e)
        r == Reachable(paths, f)
    IN ManagerWith(PeekResolutionMode(r, e), PeekAllowGlobal(r, e), FALSE,
                   paths, f, e)

\* models.py:396-410  the mode a second load_config of the same manager
\* uses: peeked when the environment is silent and a file names one,
\* otherwise the one the manager already has
ReloadResolutionMode(mgr, f, e) ==
    LET r == Reachable(mgr.config_paths, f)
        l == SourceFile(r, e, "local")
        p == SourceFile(r, e, "project")
        valid(x) == x.exists /\ x.parses /\ x.resolution_mode # Unset
    IN IF e.CHI_LLM_RESOLUTION_MODE = Unset /\ (valid(l) \/ valid(p))
       THEN PeekResolutionMode(r, e) ELSE mgr.resolution_mode

\* models.py:411-423  allow_global of a second load_config: peeked only
\* while the environment is silent and the manager does not allow it yet
ReloadAllowGlobal(mgr, f, e) ==
    IF e.CHI_LLM_ALLOW_GLOBAL = Unset /\ ~mgr.allow_global
    THEN PeekAllowGlobal(Reachable(mgr.config_paths, f), e)
    ELSE mgr.allow_global

\* models.py:324-392  load_config() called again on an existing manager
reload_config(mgr, f, e) ==
    ManagerWith(ReloadResolutionMode(mgr, f, e), ReloadAllowGlobal(mgr, f, e),
                mgr._explicit_default, mgr.config_paths, f, e)

\* models.py:543-576  get_model_stats: the label of the configuration source
config_source(mgr, f, e) ==
    IF e.CHI_LLM_CONFIG # Unset THEN "env"
    ELSE IF Discovered(f.local).exists THEN "local"
    ELSE IF Discovered(f.ancestor).exists THEN "project"
    ELSE IF mgr.allow_global /\ f.global.exists THEN "global"
    ELSE "default"

\* a manager that was never constructed
NoManager ==
    [config |-> EmptyConfig, config_paths |-> {}, resolution_mode |-> Unset,
     allow_global |-> FALSE, _explicit_default |-> FALSE]

\* ModelManager.resolve_effective_model: called at core.py:201, its body is
\* not part of the sources; decision order of the Model Selector
resolve_effective_model(mgr, provider_local_model) ==
    IF has_explicit_default(mgr)
    THEN <<mgr.default_model, "explicit default">>
    ELSE IF provider_local_model # Unset
    THEN <<provider_local_model, "provider local fallback">>
    ELSE <<BuiltinDefault, "legacy default">>

(***************************************************************************)
(* utils.load_config: the provider block and the profiles.                 *)
(***************************************************************************)
\* utils.py:12-19  deep merge of two provider mappings: key by key
MergeProvider(base, over) ==
    [k \in DOMAIN base |-> IF over[k] # Unset THEN over[k] ELSE base[k]]

\* utils.py:146-170  _load_file_config: YAML or JSON by the suffix, either
\* when the suffix tells nothing; {} when the file cannot be read
_load_file_config(file) ==
    IF file.exists /\ file.parses /\ file.format \in {"json", "yaml"}
    THEN file ELSE Absent

\* utils.py:46-71  one file merged over the configuration so far
MergeFile(c, file) ==
    LET cfg == _load_file_config(file)
    IN [provider |-> MergeProvider(c.provider, cfg.provider),
        provider_profiles |->
           IF cfg.provider_profiles # Unset
           THEN cfg.provider_profiles ELSE c.provider_profiles,
        cache_dir |->
           IF cfg.cache_dir # Unset THEN cfg.cache_dir ELSE c.cache_dir]

\* utils.py:73-107  CHI_LLM_PROVIDER_* override their own key
ProviderEnv(e) ==
    [type |-> e.CHI_LLM_PROVIDER_TYPE, model |-> e.CHI_LLM_PROVIDER_MODEL,
     model_path |-> e.CHI_LLM_PROVIDER_MODEL_PATH,
     api_key |-> e.CHI_LLM_PROVIDER_API_KEY]

\* utils.py:36-44  the built-in defaults
DefaultCacheDir == "~/.cache/chi_llm"
Defaults ==
    [provider |-> NoProvider, provider_profiles |-> Unset,
     cache_dir |-> DefaultCacheDir]

\* utils.py:46-51  the first of .chi_llm.yaml, .chi_llm.yml, .chi_llm.json
\* that exists in the working directory
ProjectFile(f) == IF f.yaml.exists THEN f.yaml ELSE f.local

\* utils.py:59-71  CHI_LLM_CONFIG: a path that exists is loaded as a file,
\* anything else is tried as inline JSON
EnvConfig(f, e) ==
    CASE e.CHI_LLM_CONFIG = "path" -> f.envfile
      [] e.CHI_LLM_CONFIG = "inline" -> JsonLoad(f.envfile)
      [] OTHER -> Absent

\* load_config with the explicit path merged before the file of the
\* working directory
utils_load_config_path_first(f, e, path) ==
    LET c1 == IF path # Unset THEN MergeFile(Defaults, f.custom) ELSE Defaults
        c2 == MergeFile(c1, ProjectFile(f))
        c3 == MergeFile(c2, EnvConfig(f, e))
    IN [c3 EXCEPT !.provider = MergeProvider(c3.provider, ProviderEnv(e))]

\* utils.py:22-143  load_config(config_path)
utils_load_config_at(f, e, path) ==
    LET c1 == MergeFile(Defaults, ProjectFile(f))
        c2 == IF path # Unset THEN MergeFile(c1, f.custom) ELSE c1
        c3 == MergeFile(c2, EnvConfig(f, e))
    IN [c3 EXCEPT !.provider = MergeProvider(c3.provider, ProviderEnv(e))]

\* core.py:64  load_config() as MicroLLM calls it (no config_path)
utils_load_config(f, e) == utils_load_config_at(f, e, Unset)

(***************************************************************************)
(* MicroLLM (core.py).                                                     *)
(***************************************************************************)
Instances == DOMAIN pc

ExternalTypes ==
    {"lmstudio", "ollama", "openai", "anthropic", "claude-cli", "openai-cli"}

\* the adapter constructors: openai.py:42-48 needs key and model,
\* claude_cli.py:41-44 and openai_cli.py:43-46 need the binary on PATH,
\* lmstudio.py:27-38 and ollama.py:30-41 only store their arguments
AdapterConstructs(provider, e) ==
    CASE provider.type \in {"lmstudio", "ollama"} -> TRUE
      [] provider.type = "openai" ->
            provider.api_key # Unset /\ provider.model # Unset
      [] provider.type \in {"claude-cli", "openai-cli"} -> e.cli_on_path
      [] OTHER -> FALSE

\* core.py:85-175  the provider types __init__ has a branch for
HandledTypes == {"lmstudio", "ollama", "openai", "claude-cli", "openai-cli"}

\* core.py:47-224  __init__ up to the decision to load the local runtime;
\* args (the constructor arguments) and decision (what the selector
\* returned, when it was asked) are kept for the statements below
InitFacade(args, f, e) ==
    LET cfg == utils_load_config(f, e)
        provider == cfg.provider
        typed == provider.type # Unset
        handled == typed /\ provider.type \in HandledTypes
        local == typed /\ provider.type = "local"
        provider_local_model == IF local THEN provider.model ELSE Unset
        provider_local_model_path == IF local THEN provider.model_path ELSE Unset
        manager == load_config(f, e)
        decision == resolve_effective_model(manager, provider_local_model)
    IN [ temperature |-> args.temperature,
         _router |-> cfg.provider_profiles = "some",
         _provider |-> handled /\ AdapterConstructs(provider, e),
         _provider_type |-> IF handled THEN provider.type ELSE Unset,
         _provider_model |-> IF handled THEN provider.model ELSE Unset,
         model_path |->
            IF provider_local_model_path # Unset
            THEN provider_local_model_path ELSE args.model_path,
         model_id |->
            IF provider_local_model_path = Unset /\ args.model_id = Unset
               /\ decision[2] # "legacy default"
            THEN decision[1] ELSE args.model_id,
         args |-> args,
         decision |->
            IF provider_local_model_path = Unset /\ args.model_id = Unset
            THEN decision ELSE <<Unset, Unset>>,
         llm |-> 0,
         error |-> Unset,
         calling |-> Unset,
         path |-> Unset,
         last |-> Unset,
         served |-> {},
         msg |-> {},
         event |-> Unset ]

\* a facade object before its constructor has run
NotConstructed ==
    [temperature |-> Unset, _router |-> FALSE, _provider |-> FALSE,
     _provider_type |-> Unset, _provider_model |-> Unset, model_path |-> Unset, model_id |-> Unset,
     args |-> [temperature |-> Unset, model_id |-> Unset, model_path |-> Unset],
     decision |-> <<Unset, Unset>>,
     llm |-> 0, error |-> Unset, calling |-> Unset, path |-> Unset,
     last |-> Unset, served |-> {}, msg |-> {}, event |-> Unset]

CtorArgs ==
    [temperature : {"0.7", "0.1"},
     model_id : {Unset, "phi3-mini", UnknownId},
     model_path : {Unset, "/models/arg.gguf"}]

\* MicroLLM(...): core.py:38-228.  A facade with an adapter or a router is
\* ready; otherwise the thread goes on to _ensure_model_loaded.
NewFacade(i, args) ==
    /\ pc[i] = "new"
    /\ sequential =>
          /\ \A j \in Instances : j < i => pc[j] \in {"ready", "failed"}
          /\ \A j \in Instances : j > i => pc[j] = "new"
          /\ args.temperature = "0.7"
          /\ args.model_id = Unset \/ args.model_path = Unset
    /\ ~sequential => (args.model_id = Unset /\ args.model_path = Unset)
    /\ self' = [self EXCEPT ![i] = InitFacade(args, fs, env)]
    /\ pc' = [pc EXCEPT ![i] =
                IF ~self'[i]._provider /\ ~self'[i]._router
                THEN "ensure" ELSE "ready"]
    /\ UNCHANGED <<env, fs, sequential, _model_instance, _model_lock,
                   _generation_lock, downloads, loads>>
    /\ UNCHANGED <<routerVars, configVars, registryVars, overrideVars>>

\* core.py:234  the unlocked test of the singleton
EnsureCheck(i) ==
    /\ pc[i] = "ensure"
    /\ pc' = [pc EXCEPT ![i] =
                IF _model_instance = 0 THEN "lock" ELSE "assign"]
    /\ UNCHANGED <<env, fs, sequential, self, _model_instance, _model_lock,
                   _generation_lock, downloads, loads>>
    /\ UNCHANGED <<routerVars, configVars, registryVars, overrideVars>>

\* core.py:235  with _model_lock
AcquireModelLock(i) ==
    /\ pc[i] = "lock"
    /\ _model_lock = 0
    /\ _model_lock' = i
    /\ pc' = [pc EXCEPT ![i] = "locked"]
    /\ UNCHANGED <<env, fs, sequential, self, _model_instance,
                   _generation_lock, downloads, loads>>
    /\ UNCHANGED <<routerVars, configVars, registryVars, overrideVars>>

\* core.py:242-299  _download_model: what it does for a facade, given the
\* cache: the path it returns, the fetch it makes, or the error it raises
_download_model(me, cached) ==
    IF MODEL_FILE \in cached
    THEN [raises |-> FALSE, path |-> MODEL_FILE, fetch |-> <<>>]
    ELSE IF me.model_id # Unset
    THEN IF me.model_id \notin DOMAIN MODELS
         THEN [raises |-> TRUE, path |-> Unset, fetch |-> <<>>]
         ELSE IF MODELS[me.model_id].filename \in cached
         THEN [raises |-> FALSE, path |-> MODELS[me.model_id].filename,
               fetch |-> <<>>]
         ELSE [raises |-> FALSE, path |-> MODELS[me.model_id].filename,
               fetch |-> <<[repo_id |-> MODELS[me.model_id].repo,
                            filename |-> MODELS[me.model_id].filename]>>]
    ELSE [raises |-> FALSE, path |-> MODEL_FILE,
          fetch |-> <<[repo_id |-> MODEL_REPO, filename |-> MODEL_FILE]>>]

\* a path choice that goes to _download_model whatever self.model_path is
ModelPathIgnored(me, cached) == _download_model(me, cached)

\* core.py:237  self.model_path or self._download_model()
ModelPathFor(me, cached) ==
    IF me.model_path # Unset
    THEN [raises |-> FALSE, path |-> me.model_path, fetch |-> <<>>]
    ELSE _download_model(me, cached)

\* a load under the lock that does not test the singleton a second time
LoadUnderLockNoRecheck(i) ==
    /\ pc[i] = "locked"
    /\ _model_lock' = 0
    /\ LET d == ModelPathFor(self[i], fs.cached)
       IN IF d.raises
          THEN /\ pc' = [pc EXCEPT ![i] = "failed"]
               /\ self' = [self EXCEPT ![i].error = "ValueError"]
               /\ UNCHANGED <<fs, _model_instance, downloads, loads>>
          ELSE /\ downloads' = downloads \o d.fetch
               /\ fs' = [fs EXCEPT !.cached =
                            @ \cup { d.fetch[k].filename : k \in 1..Len(d.fetch) }]
               /\ \E loaded \in BOOLEAN :
                    IF loaded
                    THEN /\ loads' = Append(loads, [by |-> i, path |-> d.path])
                         /\ _model_instance' = Len(loads) + 1
                         /\ pc' = [pc EXCEPT ![i] = "assign"]
                         /\ UNCHANGED self
                    ELSE /\ pc' = [pc EXCEPT ![i] = "failed"]
                         /\ self' = [self EXCEPT ![i].error = "RuntimeError"]
                         /\ UNCHANGED <<_model_instance, loads>>
    /\ UNCHANGED <<env, sequential, _generation_lock>>
    /\ UNCHANGED <<routerVars, configVars, registryVars, overrideVars>>

\* core.py:236-238 under the lock: the second test, then the path and
\* _load_model, which may raise; the lock is released on every way out of
\* the with block
LoadUnderLock(i) ==
    /\ pc[i] = "locked"
    /\ _model_lock' = 0
    /\ IF _model_instance # 0
       THEN /\ pc' = [pc EXCEPT ![i] = "assign"]
            /\ UNCHANGED <<fs, self, _model_instance, downloads, loads>>
       ELSE LET d == ModelPathFor(self[i], fs.cached)
            IN IF d.raises
               THEN /\ pc' = [pc EXCEPT ![i] = "failed"]
                    /\ self' = [self EXCEPT ![i].error = "ValueError"]
                    /\ UNCHANGED <<fs, _model_instance, downloads, loads>>
               ELSE /\ downloads' = downloads \o d.fetch
                    /\ fs' = [fs EXCEPT !.cached =
                                 @ \cup { d.fetch[k].filename : k \in 1..Len(d.fetch) }]
                    /\ \E loaded \in BOOLEAN :
                         IF loaded
                         THEN /\ loads' = Append(loads, [by |-> i, path |-> d.path])
                              /\ _model_instance' = Len(loads) + 1
                              /\ pc' = [pc EXCEPT ![i] = "assign"]
                              /\ UNCHANGED self
                         ELSE /\ pc' = [pc EXCEPT ![i] = "failed"]
                              /\ self' = [self EXCEPT ![i].error = "RuntimeError"]
                              /\ UNCHANGED <<_model_instance, loads>>
    /\ UNCHANGED <<env, sequential, _generation_lock>>
    /\ UNCHANGED <<routerVars, configVars, registryVars, overrideVars>>

\* core.py:240  self.llm = _model_instance
AssignHandle(i) ==
    /\ pc[i] = "assign"
    /\ self' = [self EXCEPT ![i].llm = _model_instance]
    /\ pc' = [pc EXCEPT ![i] = "ready"]
    /\ UNCHANGED <<env, fs, sequential, _model_instance, _model_lock,
                   _generation_lock, downloads, loads>>
    /\ UNCHANGED <<routerVars, configVars, registryVars, overrideVars>>

(***************************************************************************)
(* Backend adapters (providers/*.py): what a call returns or raises, given *)
(* what the backend does.                                                  *)
(***************************************************************************)
\* lmstudio.py:39, ollama.py:42  adapters that talk to base_url host:port
HttpTypes == {"lmstudio", "ollama"}

\* what the backend does with a call: it answers with text, answers with
\* empty output, cannot be used (connection refused, timeout, non-success
\* status, non-zero exit), or answers with a body of an unexpected shape
\* (a JSON list, an empty choices list); a CLI's stdout has no shape
BackendEvents(type) ==
    IF type \in {"claude-cli", "openai-cli"}
    THEN {"text", "empty", "refused"}
    ELSE {"text", "empty", "refused", "malformed"}

Returns(t) == [raises |-> FALSE, text |-> t, msg |-> {}]
Raises(m) == [raises |-> TRUE, text |-> NoText, msg |-> m]

\* lmstudio.py:80-127, ollama.py:81-137: without a model the call raises
\* before any request; _post wraps every transport failure in "Could not
\* reach <name> at <base_url>"; a body that is not a mapping raises
\* "Unexpected <name> response"
HttpAdapterCall(model, ev) ==
    IF model = Unset THEN Raises({"name"})
    ELSE CASE ev = "text"      -> Returns("OK")
           [] ev = "empty"     -> Returns("")
           [] ev = "refused"   -> Raises({"name", "url"})
           [] ev = "malformed" -> Raises({"name"})

\* openai.py:80-136: a failure of the SDK call raises "OpenAI generate()
\* failed"; an exception while reading resp.choices[0].message.content
\* returns ""
OpenAIAdapterCall(ev) ==
    CASE ev = "text"      -> Returns("OK")
      [] ev = "empty"     -> Returns("")
      [] ev = "refused"   -> Raises({"name"})
      [] ev = "malformed" -> Returns("")

\* claude_cli.py:45-73, openai_cli.py:47-75: timeout and non-zero exit raise
\* "<name> CLI ..."; otherwise the stripped stdout is returned
CliAdapterCall(ev) ==
    CASE ev = "text"    -> Returns("OK")
      [] ev = "empty"   -> Returns("")
      [] ev = "refused" -> Raises({"name"})

\* the adapter a facade holds, called for generate, chat or complete
AdapterCall(type, model, ev) ==
    CASE type \in HttpTypes -> HttpAdapterCall(model, ev)
      [] type = "openai"    -> OpenAIAdapterCall(ev)
      [] OTHER              -> CliAdapterCall(ev)

\* a dispatch that serves the call from the local runtime once a call of the
\* facade has raised
FacadeCallRedirecting(i, o) ==
    /\ pc[i] = "ready"
    /\ \E r \in {"OK", "RuntimeError"} :
          LET path == IF self[i].last = "RuntimeError" THEN "local"
                      ELSE IF self[i]._router THEN "router"
                      ELSE IF self[i]._provider THEN "provider"
                      ELSE IF self[i]._provider_type # Unset THEN "unavailable"
                      ELSE "local"
          IN self' = [self EXCEPT ![i].path = path, ![i].last = r,
                                  ![i].served = @ \cup {path}]
    /\ UNCHANGED <<env, fs, sequential, pc, _model_instance, _model_lock,
                   _generation_lock, downloads, loads>>
    /\ UNCHANGED <<routerVars, configVars, registryVars, overrideVars>>

\* core.py:351-370, 411-429, 469-487  generate/chat/complete up to the choice
\* of the dispatch path: the router, the adapter, the "not available" error,
\* or the local runtime
FacadeCall(i, o) ==
    /\ pc[i] = "ready"
    /\ sequential => \A j \in Instances : pc[j] \in {"new", "ready", "failed"}
    /\ IF self[i]._router
       THEN /\ \E r \in {"OK", "RuntimeError"} :
                 self' = [self EXCEPT ![i].path = "router", ![i].last = r,
                                      ![i].served = @ \cup {"router"}]
            /\ UNCHANGED pc
       ELSE IF self[i]._provider
       THEN /\ \E ev \in BackendEvents(self[i]._provider_type) :
                 LET r == AdapterCall(self[i]._provider_type,
                                      self[i]._provider_model, ev)
                 IN self' = [self EXCEPT
                       ![i].path = "provider",
                       ![i].served = @ \cup {"provider"},
                       ![i].event = ev,
                       ![i].last = IF r.raises THEN "RuntimeError" ELSE r.text,
                       ![i].msg = r.msg]
            /\ UNCHANGED pc
       ELSE IF self[i]._provider_type # Unset
       THEN /\ self' = [self EXCEPT ![i].path = "unavailable",
                                    ![i].served = @ \cup {"unavailable"},
                                    ![i].last = "RuntimeError",
                                    ![i].msg = {"name"}]
            /\ UNCHANGED pc
       ELSE /\ self' = [self EXCEPT ![i].path = "local", ![i].calling = o,
                                    ![i].served = @ \cup {"local"}]
            /\ pc' = [pc EXCEPT ![i] = "genlock"]
    /\ UNCHANGED <<env, fs, sequential, _model_instance, _model_lock,
                   _generation_lock, downloads, loads>>
    /\ UNCHANGED <<routerVars, configVars, registryVars, overrideVars>>

\* an inference entered without waiting for the generation lock
EnterWithoutGenerationLock(i) ==
    /\ pc[i] = "genlock"
    /\ _generation_lock' = i
    /\ pc' = [pc EXCEPT ![i] = "inference"]
    /\ UNCHANGED <<env, fs, sequential, self, _model_instance, _model_lock,
                   downloads, loads>>
    /\ UNCHANGED <<routerVars, configVars, registryVars, overrideVars>>

\* core.py:405, 450, 492  with _generation_lock
AcquireGenerationLock(i) ==
    /\ pc[i] = "genlock"
    /\ _generation_lock = 0
    /\ _generation_lock' = i
    /\ pc' = [pc EXCEPT ![i] = "inference"]
    /\ UNCHANGED <<env, fs, sequential, self, _model_instance, _model_lock,
                   downloads, loads>>
    /\ UNCHANGED <<routerVars, configVars, registryVars, overrideVars>>

\* an inference that leaves the generation lock held when the runtime raises
InferenceEndsHoldingOnRaise(i) ==
    /\ pc[i] = "inference"
    /\ \E r \in {"OK", "RuntimeError"} :
          /\ self' = [self EXCEPT ![i].last = r, ![i].calling = Unset]
          /\ _generation_lock' = IF r = "OK" THEN 0 ELSE _generation_lock
    /\ pc' = [pc EXCEPT ![i] = "ready"]
    /\ UNCHANGED <<env, fs, sequential, _model_instance, _model_lock,
                   downloads, loads>>
    /\ UNCHANGED <<routerVars, configVars, registryVars, overrideVars>>

\* core.py:406-409, 451-467, 493-501  self.llm(...) returns or raises; the
\* with block releases the lock either way
InferenceEnds(i) ==
    /\ pc[i] = "inference"
    /\ _generation_lock' = 0
    /\ \E r \in {"OK", "RuntimeError"} :
          self' = [self EXCEPT ![i].last = r, ![i].calling = Unset]
    /\ pc' = [pc EXCEPT ![i] = "ready"]
    /\ UNCHANGED <<env, fs, sequential, _model_instance, _model_lock,
                   downloads, loads>>
    /\ UNCHANGED <<routerVars, configVars, registryVars, overrideVars>>

FacadeNext ==
    \/ \E i \in Instances, args \in CtorArgs : NewFacade(i, args)
    \/ \E i \in Instances : EnsureCheck(i)
    \/ \E i \in Instances : AcquireModelLock(i)
    \/ \E i \in Instances : LoadUnderLock(i)
    \/ \E i \in Instances : AssignHandle(i)
    \/ \E i \in Instances, o \in Ops : FacadeCall(i, o)
    \/ \E i \in Instances : AcquireGenerationLock(i)
    \/ \E i \in Instances : InferenceEnds(i)

\* the configuration session when it is not studied
NotCalled == "<not called>"

ConfigUnused ==
    /\ cpc = "idle"
    /\ config_path = NotCalled
    /\ merged = Defaults
    /\ _mgr = NoManager
    /\ written = <<>>

\* the recommendation when it is not studied: 8 GB is what
\* _get_available_ram assumes without psutil
NotRecommended == "<not called>"

RegistryUnused ==
    /\ available_ram = 8
    /\ best_model = NotRecommended

\* a value of a configuration key: not set, an integer, or a string
NotSet == [unset |-> TRUE]
IntVal(n) == [int |-> n]
StrVal(text) == [str |-> text]

\* the variables of the environment that carry an integer
IntVariables ==
    {"CHI_LLM_PROVIDER_PORT", "CHI_LLM_PROVIDER_CONTEXT_WINDOW",
     "CHI_LLM_PROVIDER_CONTEXT", "CHI_LLM_PROVIDER_N_GPU_LAYERS",
     "CHI_LLM_PROVIDER_OUTPUT_TOKENS", "CHI_LLM_CONTEXT",
     "CHI_LLM_MAX_TOKENS"}

\* utils.py:36-44, models.py:333-338  the integer keys before any source
\* set them
BuiltinIntegers ==
    [port |-> NotSet, context_window |-> NotSet, n_gpu_layers |-> NotSet,
     output_tokens |-> NotSet,
     preferred_context |-> IntVal(8192), preferred_max_tokens |-> IntVal(4096)]

\* the environment overrides when they are not studied
OverrideUnused ==
    /\ environ = [v \in IntVariables |-> Unset]
    /\ lower = BuiltinIntegers
    /\ overridden = BuiltinIntegers
    /\ applied = {}

\* the router part of the state when only facades are studied
RouterUnused ==
    /\ profiles = <<>>
    /\ rpc = "idle"
    /\ op = "generate"
    /\ wanted = {}
    /\ candidates = <<>>
    /\ idx = 1
    /\ constructed = <<>>
    /\ invoked = <<>>
    /\ outcome = "none"
    /\ result = NoText

\* the facade part of the state when only the router is studied
FacadeUnused ==
    /\ env = EmptyEnv
    /\ fs = EmptyFs
    /\ sequential = TRUE
    /\ pc = <<>>
    /\ self = <<>>
    /\ _model_instance = 0
    /\ _model_lock = 0
    /\ _generation_lock = 0
    /\ downloads = <<>>
    /\ loads = <<>>

\* router.py:27-33  a router over any list of profiles, no call in progress
RouterInit ==
    /\ profiles \in ProfileLists
    /\ rpc = "idle"
    /\ op = "generate"
    /\ wanted = {}
    /\ candidates = <<>>
    /\ idx = 1
    /\ constructed = <<>>
    /\ invoked = <<>>
    /\ outcome = "none"
    /\ result = NoText
    /\ FacadeUnused
    /\ ConfigUnused
    /\ RegistryUnused
    /\ OverrideUnused

SpecRouter == RouterInit /\ [][RouterNext]_vars

(***************************************************************************)
(* Facades constructed and used by one thread, one after another, in a     *)
(* range of configurations.                                                *)
(***************************************************************************)
QwenFile == MODELS["qwen3-1.7b"].filename

\* configurations without an external provider: where default_model comes
\* from, a provider block of type local, and the state of the model cache
LocalWorlds ==
    { [env |-> [EmptyEnv EXCEPT !.CHI_LLM_MODEL = em],
       fs  |-> [EmptyFs EXCEPT !.local = file, !.cached = cache]] :
        em \in {Unset, "qwen3-1.7b", UnknownId},
        file \in {Absent} \cup
                 { FileOf(dm, prov, Unset) :
                     dm \in {Unset, "qwen3-1.7b", UnknownId},
                     prov \in { NoProvider,
                                ProviderOf("local", "phi3-mini", Unset, Unset),
                                ProviderOf("local", Unset, "/models/own.gguf", Unset) } },
        cache \in {{}, {MODEL_FILE}, {QwenFile}} }

\* configurations naming an external provider or provider profiles
ExternalWorlds ==
    { [env |-> [EmptyEnv EXCEPT !.cli_on_path = onpath],
       fs  |-> [EmptyFs EXCEPT !.local = FileOf(dm, prov, profs)]] :
        onpath \in BOOLEAN,
        dm \in {Unset, UnknownId},
        profs \in {Unset, "some"},
        prov \in { NoProvider,
                   ProviderOf("ollama", Unset, Unset, Unset),
                   ProviderOf("ollama", "llama3", Unset, Unset),
                   ProviderOf("openai", "gpt-4o-mini", Unset, "sk-key"),
                   ProviderOf("openai", "gpt-4o-mini", Unset, Unset),
                   ProviderOf("anthropic", "claude-3-haiku", Unset, "sk-key"),
                   ProviderOf("anthropic", "claude-3-haiku", Unset, Unset),
                   ProviderOf("claude-cli", Unset, Unset, Unset) } }
    \cup
    { [env |-> [EmptyEnv EXCEPT !.CHI_LLM_PROVIDER_TYPE = "ollama"],
       fs  |-> EmptyFs] }

FacadeInit ==
    /\ \E w \in LocalWorlds \cup ExternalWorlds : env = w.env /\ fs = w.fs
    /\ sequential = TRUE
    /\ pc = [i \in 1..MaxFacades |-> "new"]
    /\ self = [i \in 1..MaxFacades |-> NotConstructed]
    /\ _model_instance = 0
    /\ _model_lock = 0
    /\ _generation_lock = 0
    /\ downloads = <<>>
    /\ loads = <<>>
    /\ RouterUnused
    /\ ConfigUnused
    /\ RegistryUnused
    /\ OverrideUnused

SpecFacade == FacadeInit /\ [][FacadeNext]_vars

(***************************************************************************)
(* Facades constructed and used one after another where the provider block *)
(* is of type local and names a model file by its path.                    *)
(***************************************************************************)
LocalPathWorlds ==
    { w \in LocalWorlds :
        /\ w.fs.local.provider.model_path # Unset
        /\ w.env.CHI_LLM_MODEL \in {Unset, UnknownId} }

LocalPathInit ==
    /\ \E w \in LocalPathWorlds : env = w.env /\ fs = w.fs
    /\ sequential = TRUE
    /\ pc = [i \in 1..MaxFacades |-> "new"]
    /\ self = [i \in 1..MaxFacades |-> NotConstructed]
    /\ _model_instance = 0
    /\ _model_lock = 0
    /\ _generation_lock = 0
    /\ downloads = <<>>
    /\ loads = <<>>
    /\ RouterUnused
    /\ ConfigUnused
    /\ RegistryUnused
    /\ OverrideUnused

SpecLocalPath == LocalPathInit /\ [][FacadeNext]_vars

(***************************************************************************)
(* Facades for the default local model constructed and used by concurrent  *)
(* threads, with no configuration at all.                                  *)
(***************************************************************************)
ThreadsInit ==
    /\ env = EmptyEnv
    /\ fs \in {EmptyFs, [EmptyFs EXCEPT !.cached = {MODEL_FILE}]}
    /\ sequential = FALSE
    /\ pc = [i \in 1..MaxThreads |-> "new"]
    /\ self = [i \in 1..MaxThreads |-> NotConstructed]
    /\ _model_instance = 0
    /\ _model_lock = 0
    /\ _generation_lock = 0
    /\ downloads = <<>>
    /\ loads = <<>>
    /\ RouterUnused
    /\ ConfigUnused
    /\ RegistryUnused
    /\ OverrideUnused

SpecThreads == ThreadsInit /\ [][FacadeNext]_vars

(***************************************************************************)
(* Configuration sessions: utils.load_config, ModelManager and the set     *)
(* operation of the TUI store and of the command line, over a range of     *)
(* configuration files and environments.                                   *)
(***************************************************************************)
MaxWrites == 1

ConfigScopes == {"local", "global"}

\* what each configuration source sets, so that the origin of a resolved
\* value can be told
ModelIn(name) ==
    CASE name = "local" -> "m1" [] name = "global" -> "m2"
      [] name = "envfile" -> "m3" [] name = "custom" -> "m4"
      [] name = "ancestor" -> "m5" [] name = "yaml" -> "m6"

ProviderModelIn(name) ==
    CASE name = "local" -> "llama3" [] name = "global" -> "mistral"
      [] name = "envfile" -> "qwen2" [] name = "custom" -> "phi3"
      [] name = "ancestor" -> "gemma2" [] name = "yaml" -> "llama3.1"

CacheDirIn(name) ==
    CASE name = "local" -> "/cache/local" [] name = "global" -> "/cache/global"
      [] name = "envfile" -> "/cache/env" [] name = "custom" -> "/cache/custom"
      [] name = "ancestor" -> "/cache/up" [] name = "yaml" -> "/cache/yaml"

\* the file of a source with every key set, in the given syntax
FullFile(name, format) ==
    [FileOf(ModelIn(name),
            ProviderOf(Unset, ProviderModelIn(name), Unset, Unset), Unset)
       EXCEPT !.cache_dir = CacheDirIn(name), !.format = format]

LocalFiles ==
    {Absent, FullFile("local", "json"),
     [FullFile("local", "json") EXCEPT !.allow_global = "true"],
     [FullFile("local", "json") EXCEPT !.resolution_mode = "env-first"],
     [FileOf(Unset, NoProvider, Unset) EXCEPT !.allow_global = "true"]}

EnvConfigs ==
    { <<Unset, Absent>>,
      <<"path", FullFile("envfile", "json")>>,
      <<"path", FullFile("envfile", "yaml")>>,
      <<"inline", FullFile("envfile", "json")>> }

\* the sources utils.load_config reads, each there or not
UtilsWorlds ==
    { [env |-> [EmptyEnv EXCEPT !.CHI_LLM_CONFIG = ec[1],
                                !.CHI_LLM_PROVIDER_MODEL = pm],
       fs  |-> [EmptyFs EXCEPT !.local = l, !.yaml = y, !.custom = c,
                               !.envfile = ec[2]]] :
        ec \in EnvConfigs,
        pm \in {Unset, "codellama"},
        l \in {Absent, FullFile("local", "json")},
        y \in {Absent, FullFile("yaml", "yaml")},
        c \in {Absent, FullFile("custom", "json"), FullFile("custom", "yaml")} }

\* the sources and the flags a ModelManager reads, each there or not
ManagerWorlds ==
    { [env |-> [EmptyEnv EXCEPT !.CHI_LLM_CONFIG = ec[1],
                                !.CHI_LLM_RESOLUTION_MODE = mode,
                                !.CHI_LLM_ALLOW_GLOBAL = allow,
                                !.CHI_LLM_MODEL = em],
       fs  |-> [EmptyFs EXCEPT !.local = l, !.ancestor = a,
                               !.envfile = ec[2], !.global = g]] :
        ec \in EnvConfigs,
        mode \in {Unset, "env-first"},
        allow \in {Unset, "1"},
        em \in {Unset, "qwen3-1.7b"},
        l \in LocalFiles,
        a \in {Absent, FullFile("ancestor", "json")},
        g \in {Absent, FullFile("global", "json")} }
    \cup
    { [env |-> EmptyEnv,
       fs  |-> [EmptyFs EXCEPT !.yaml = FullFile("yaml", "yaml"), !.global = g]] :
        g \in {Absent, FullFile("global", "yaml")} }

ConfigWorlds == UtilsWorlds \cup ManagerWorlds

\* utils.py:22-143  load_config(config_path) called by the session
LoadConfig(path) ==
    /\ merged' = utils_load_config_at(fs, env, path)
    /\ config_path' = path
    /\ UNCHANGED <<cpc, _mgr, written>>
    /\ UNCHANGED <<routerVars, facadeVars, registryVars, overrideVars>>

\* store.py:30-34, models.py:275-291  TUIStore(config_path): a new
\* ModelManager, the configuration resolved from scratch
NewModelManager(path) ==
    /\ _mgr' = ModelManager(path, fs, env)
    /\ cpc' = "resolved"
    /\ UNCHANGED <<config_path, merged, written>>
    /\ UNCHANGED <<routerVars, facadeVars, registryVars, overrideVars>>

\* ui.py:213-233, store.py:70-76  the file a set operation writes: the whole
\* merged configuration of the manager with the one key replaced
WrittenFile(cfg, key, value) ==
    LET c == [cfg EXCEPT ![key] = value]
    IN [exists |-> TRUE, parses |-> TRUE, format |-> "json",
        default_model |-> c.default_model, allow_global |-> c.allow_global,
        resolution_mode |-> c.resolution_mode, cache_dir |-> c.cache_dir,
        provider |-> c.provider, provider_profiles |-> c.provider_profiles]

\* ui.py:226-231, store.py:72-76  the target of the scope
WriteTo(f, scope, file) ==
    IF scope = "local" THEN [f EXCEPT !.local = file]
    ELSE [f EXCEPT !.global = file]

\* store.py:51-80  TUIStore.set_config(scope, key, value) on a store whose
\* manager exists: write, then load_config() again on that manager
set_config(scope, key, value) ==
    /\ _mgr # NoManager
    /\ Len(written) < MaxWrites
    /\ fs' = WriteTo(fs, scope, WrittenFile(_mgr.config, key, value))
    /\ _mgr' = reload_config(_mgr, fs', env)
    /\ written' = Append(written, [scope |-> scope, key |-> key, value |-> value])
    /\ cpc' = "set"
    /\ UNCHANGED <<config_path, merged>>
    /\ UNCHANGED <<env, sequential, pc, self, _model_instance, _model_lock,
                   _generation_lock, downloads, loads>>
    /\ UNCHANGED <<routerVars, registryVars, overrideVars>>

\* ui.py:209-234  cmd_config_set: a manager of its own, write, no reload
cmd_config_set(scope, key, value) ==
    /\ Len(written) < MaxWrites
    /\ fs' = WriteTo(fs, scope,
                     WrittenFile(ModelManager(Unset, fs, env).config, key, value))
    /\ written' = Append(written, [scope |-> scope, key |-> key, value |-> value])
    /\ cpc' = "written"
    /\ UNCHANGED <<config_path, merged, _mgr>>
    /\ UNCHANGED <<env, sequential, pc, self, _model_instance, _model_lock,
                   _generation_lock, downloads, loads>>
    /\ UNCHANGED <<routerVars, registryVars, overrideVars>>

\* the keys and values the sessions set
SetKeys == {"default_model"}
SetValue(key) == "phi3-mini"

ConfigNext ==
    \/ \E path \in {Unset, "path"} : LoadConfig(path)
    \/ \E path \in {Unset, "path"} : NewModelManager(path)
    \/ \E scope \in ConfigScopes, key \in SetKeys :
          set_config(scope, key, SetValue(key))
    \/ \E scope \in ConfigScopes, key \in SetKeys :
          cmd_config_set(scope, key, SetValue(key))

ConfigInit ==
    /\ \E w \in ConfigWorlds : env = w.env /\ fs = w.fs
    /\ sequential = TRUE
    /\ pc = <<>>
    /\ self = <<>>
    /\ _model_instance = 0
    /\ _model_lock = 0
    /\ _generation_lock = 0
    /\ downloads = <<>>
    /\ loads = <<>>
    /\ RouterUnused
    /\ ConfigUnused
    /\ RegistryUnused
    /\ OverrideUnused

SpecConfig == ConfigInit /\ [][ConfigNext]_vars

(***************************************************************************)
(* The Model Registry and recommend_model on machines of any size.         *)
(***************************************************************************)
MaxRamGb == 128

\* models.py:36-261  MODELS in the order of the dictionary: the id,
\* recommended_ram_gb in tenths of a GB, and whether "recommended" is a tag
Registry ==
    << [id |-> "gemma-270m", ram |-> 20, recommended |-> FALSE],
       [id |-> "qwen3-0.6b", ram |-> 15, recommended |-> FALSE],
       [id |-> "qwen3-1.7b", ram |-> 30, recommended |-> TRUE],
       [id |-> "stablelm-2-1.6b", ram |-> 30, recommended |-> FALSE],
       [id |-> "gemma2-2b", ram |-> 40, recommended |-> FALSE],
       [id |-> "phi2-2.7b", ram |-> 40, recommended |-> FALSE],
       [id |-> "stablelm-3b", ram |-> 40, recommended |-> FALSE],
       [id |-> "phi3-mini", ram |-> 50, recommended |-> TRUE],
       [id |-> "qwen3-8b", ram |-> 90, recommended |-> FALSE],
       [id |-> "gemma2-9b", ram |-> 60, recommended |-> FALSE],
       [id |-> "liquid-lfm2-1.2b", ram |-> 25, recommended |-> FALSE],
       [id |-> "deepseek-r1-qwen-1.5b", ram |-> 30, recommended |-> FALSE],
       [id |-> "qwen3-4b-thinking", ram |-> 50, recommended |-> FALSE],
       [id |-> "qwen3-4b", ram |-> 50, recommended |-> FALSE],
       [id |-> "qwen2.5-coder-0.5b", ram |-> 15, recommended |-> FALSE],
       [id |-> "qwen2.5-coder-1.5b", ram |-> 25, recommended |-> FALSE],
       [id |-> "qwen2.5-coder-3b", ram |-> 40, recommended |-> FALSE],
       [id |-> "qwen2.5-coder-7b", ram |-> 80, recommended |-> FALSE] >>

\* models.py:534-537  model.recommended_ram_gb <= available_ram * 0.7, with
\* the entry in tenths of a GB and the machine in whole GB
Fits(model, ram_gb) == model.ram * 10 <= ram_gb * 70

\* models.py:533-539  the first entry, in dictionary order, that is tagged
\* and fits; 0 when the loop ends without a break
RECURSIVE FirstFit(_, _)
FirstFit(i, ram_gb) ==
    IF i > Len(Registry) THEN 0
    ELSE IF Registry[i].recommended /\ Fits(Registry[i], ram_gb) THEN i
    ELSE FirstFit(i + 1, ram_gb)

\* models.py:526-541  recommend_model
recommend_model(ram_gb) ==
    LET i == FirstFit(1, ram_gb)
    IN IF i = 0 THEN "gemma-270m" ELSE Registry[i].id

\* cli_modules/models.py:25-26  a manager is asked for its recommendation
Recommend ==
    /\ best_model = NotRecommended
    /\ best_model' = recommend_model(available_ram)
    /\ UNCHANGED available_ram
    /\ UNCHANGED <<routerVars, facadeVars, configVars, overrideVars>>

RegistryNext == Recommend

RegistryInit ==
    /\ available_ram \in 1..MaxRamGb
    /\ best_model = NotRecommended
    /\ RouterUnused
    /\ FacadeUnused
    /\ ConfigUnused
    /\ OverrideUnused

SpecRegistry == RegistryInit /\ [][RegistryNext]_vars


(***************************************************************************)
(* The provider setter of the command line and of the TUI store, over a    *)
(* range of target files.                                                  *)
(***************************************************************************)

\* a mapping with no key
EmptyMapping == FileOf(Unset, NoProvider, Unset)

\* providers.py:240-245, store.py:185-190  the mapping of the target file as
\* the setter reads it: json.loads of the file, {} when the file is not
\* there or is not JSON
ExistingDiscarded(file) == EmptyMapping

ExistingOf(file) ==
    IF file.exists /\ JsonLoad(file).parses
    THEN [file EXCEPT !.format = "json"]
    ELSE EmptyMapping

\* providers.py:246-247, store.py:191-192  existing["provider"] = provider,
\* then the mapping is written as JSON
ProviderWritten(file, provider) ==
    [ExistingOf(file) EXCEPT !.provider = provider]

\* providers.py:61-65, store.py:181-184  the target file of the scope
TargetOf(f, scope) == IF scope = "local" THEN f.local ELSE f.global

\* store.py:179-195  TUIStore.set_provider(scope, provider): write, then
\* load_config() again on the manager of the store
set_provider(scope, provider) ==
    /\ _mgr # NoManager
    /\ Len(written) < MaxWrites
    /\ fs' = WriteTo(fs, scope, ProviderWritten(TargetOf(fs, scope), provider))
    /\ _mgr' = reload_config(_mgr, fs', env)
    /\ written' = Append(written, [scope |-> scope, key |-> "provider",
                                   value |-> provider.type])
    /\ cpc' = "set"
    /\ UNCHANGED <<config_path, merged>>
    /\ UNCHANGED <<env, sequential, pc, self, _model_instance, _model_lock,
                   _generation_lock, downloads, loads>>
    /\ UNCHANGED <<routerVars, registryVars, overrideVars>>

\* providers.py:171-247  cmd_providers, sub-command set: no manager
cmd_providers_set(scope, provider) ==
    /\ Len(written) < MaxWrites
    /\ fs' = WriteTo(fs, scope, ProviderWritten(TargetOf(fs, scope), provider))
    /\ written' = Append(written, [scope |-> scope, key |-> "provider",
                                   value |-> provider.type])
    /\ cpc' = "written"
    /\ UNCHANGED <<config_path, merged, _mgr>>
    /\ UNCHANGED <<env, sequential, pc, self, _model_instance, _model_lock,
                   _generation_lock, downloads, loads>>
    /\ UNCHANGED <<routerVars, registryVars, overrideVars>>

\* the provider blocks the sessions set
SetProviders ==
    {ProviderOf("ollama", "llama3", Unset, Unset),
     ProviderOf("openai", "gpt-4o-mini", Unset, "sk-test")}

\* a file that is there and is not well formed
Malformed(file) == [file EXCEPT !.parses = FALSE]

\* the target files: absent, with every key, with some keys, malformed, and
\* a model_config.json that does not hold JSON
ProviderWorlds ==
    { [env |-> [EmptyEnv EXCEPT !.CHI_LLM_ALLOW_GLOBAL = allow],
       fs  |-> [EmptyFs EXCEPT !.local = l, !.global = g]] :
        allow \in {Unset, "1"},
        l \in LocalFiles \cup {Malformed(FullFile("local", "json"))},
        g \in {Absent, FullFile("global", "json"), FullFile("global", "yaml")} }

ProviderNext ==
    \/ \E path \in {Unset, "path"} : NewModelManager(path)
    \/ \E scope \in ConfigScopes, provider \in SetProviders :
          set_provider(scope, provider)
    \/ \E scope \in ConfigScopes, provider \in SetProviders :
          cmd_providers_set(scope, provider)

ProviderInit ==
    /\ \E w \in ProviderWorlds : env = w.env /\ fs = w.fs
    /\ sequential = TRUE
    /\ pc = <<>>
    /\ self = <<>>
    /\ _model_instance = 0
    /\ _model_lock = 0
    /\ _generation_lock = 0
    /\ downloads = <<>>
    /\ loads = <<>>
    /\ RouterUnused
    /\ ConfigUnused
    /\ RegistryUnused
    /\ OverrideUnused

SpecProvider == ProviderInit /\ [][ProviderNext]_vars

(***************************************************************************)
(* Facades of every dispatch path constructed and used one after another.  *)
(***************************************************************************)
\* one configuration for each way the constructor can come out: a router,
\* an adapter, an adapter that could not be constructed, a provider type
\* without a branch in __init__, and no provider at all
DispatchWorlds ==
    { [env |-> EmptyEnv,
       fs  |-> [EmptyFs EXCEPT !.local = FileOf(Unset, prov, profs),
                               !.cached = {MODEL_FILE}]] :
        profs \in {Unset, "some"},
        prov \in { NoProvider,
                   ProviderOf("ollama", "llama3", Unset, Unset),
                   ProviderOf("openai", "gpt-4o-mini", Unset, Unset),
                   ProviderOf("anthropic", "claude-3-haiku", Unset, "sk-key") } }

DispatchInit ==
    /\ \E w \in DispatchWorlds : env = w.env /\ fs = w.fs
    /\ sequential = TRUE
    /\ pc = [i \in 1..MaxFacades |-> "new"]
    /\ self = [i \in 1..MaxFacades |-> NotConstructed]
    /\ _model_instance = 0
    /\ _model_lock = 0
    /\ _generation_lock = 0
    /\ downloads = <<>>
    /\ loads = <<>>
    /\ RouterUnused
    /\ ConfigUnused
    /\ RegistryUnused
    /\ OverrideUnused

SpecDispatch == DispatchInit /\ [][FacadeNext]_vars

(***************************************************************************)
(* Resolution over sources that set different keys of the provider         *)
(* mapping.                                                                *)
(***************************************************************************)
\* a file whose provider mapping sets one key only
ProviderKeyFile(prov, profs) == FileOf(Unset, prov, profs)

MergeWorlds ==
    { [env |-> [EmptyEnv EXCEPT !.CHI_LLM_CONFIG = ec[1],
                                !.CHI_LLM_RESOLUTION_MODE = mode,
                                !.CHI_LLM_ALLOW_GLOBAL = allow,
                                !.CHI_LLM_PROVIDER_MODEL = pm],
       fs  |-> [EmptyFs EXCEPT !.local = l, !.envfile = ec[2], !.custom = c,
                               !.global = g]] :
        ec \in { <<Unset, Absent>>,
                 <<"path", ProviderKeyFile(
                              ProviderOf(Unset, "qwen2", Unset, Unset), "some")>>,
                 <<"path", ProviderKeyFile(
                              ProviderOf(Unset, Unset, Unset, "sk-env"), Unset)>> },
        mode \in {Unset, "env-first"},
        allow \in {Unset, "1"},
        pm \in {Unset, "codellama"},
        l \in { Absent,
                ProviderKeyFile(ProviderOf("ollama", Unset, Unset, Unset), "some"),
                FullFile("local", "json") },
        c \in { Absent,
                ProviderKeyFile(
                   ProviderOf(Unset, Unset, "/models/c.gguf", Unset), Unset) },
        g \in {Absent, FullFile("global", "json")} }

MergeNext ==
    \/ \E path \in {Unset, "path"} : LoadConfig(path)
    \/ \E path \in {Unset, "path"} : NewModelManager(path)

MergeInit ==
    /\ \E w \in MergeWorlds : env = w.env /\ fs = w.fs
    /\ sequential = TRUE
    /\ pc = <<>>
    /\ self = <<>>
    /\ _model_instance = 0
    /\ _model_lock = 0
    /\ _generation_lock = 0
    /\ downloads = <<>>
    /\ loads = <<>>
    /\ RouterUnused
    /\ ConfigUnused
    /\ RegistryUnused
    /\ OverrideUnused

SpecMerge == MergeInit /\ [][MergeNext]_vars

(***************************************************************************)
(* Resolution where some of the configuration files are malformed.         *)
(***************************************************************************)
\* each file absent, well formed, or there and malformed
OrMalformed(file) == {Absent, file, Malformed(file)}

MalformedWorlds ==
    { [env |-> [EmptyEnv EXCEPT !.CHI_LLM_CONFIG =
                                   IF ef.exists THEN "path" ELSE Unset,
                                !.CHI_LLM_ALLOW_GLOBAL = allow],
       fs  |-> [EmptyFs EXCEPT !.local = l, !.yaml = y, !.ancestor = a,
                               !.envfile = ef, !.custom = c, !.global = g]] :
        allow \in {Unset, "1"},
        l \in OrMalformed(FullFile("local", "json")),
        y \in OrMalformed(FullFile("yaml", "yaml")),
        a \in {Absent, FullFile("ancestor", "json")},
        ef \in OrMalformed(FullFile("envfile", "json")),
        c \in {Absent, Malformed(FullFile("custom", "json"))},
        g \in OrMalformed(FullFile("global", "json")) }

MalformedInit ==
    /\ \E w \in MalformedWorlds : env = w.env /\ fs = w.fs
    /\ sequential = TRUE
    /\ pc = <<>>
    /\ self = <<>>
    /\ _model_instance = 0
    /\ _model_lock = 0
    /\ _generation_lock = 0
    /\ downloads = <<>>
    /\ loads = <<>>
    /\ RouterUnused
    /\ ConfigUnused
    /\ RegistryUnused
    /\ OverrideUnused

SpecMalformed == MalformedInit /\ [][MergeNext]_vars

(***************************************************************************)
(* The environment overrides of the integer keys.                          *)
(***************************************************************************)
\* the texts an environment variable is given
EnvTexts == {"", "4096", " 42 ", "0", "-1", "abc", "12.5"}

\* int(text): the integer, or ValueError
ParseInt(text) ==
    CASE text = "4096" -> [ok |-> TRUE, val |-> 4096]
      [] text = " 42 " -> [ok |-> TRUE, val |-> 42]
      [] text = "0"    -> [ok |-> TRUE, val |-> 0]
      [] text = "-1"   -> [ok |-> TRUE, val |-> 0 - 1]
      [] OTHER         -> [ok |-> FALSE, val |-> 0]

\* os.environ.get(name) is truthy: the variable is there and not empty
Truthy(text) == text # Unset /\ text # ""

\* utils.py:116-141, models.py:375-387  try: key = int(text) / except: pass
IntOrPass(value, text) ==
    IF ParseInt(text).ok THEN IntVal(ParseInt(text).val) ELSE value

\* utils.py:84-92  CHI_LLM_PROVIDER_PORT: int when possible, else the raw
\* text
PortOverride(value, text) ==
    IF ~Truthy(text) THEN value
    ELSE IF ParseInt(text).ok THEN IntVal(ParseInt(text).val)
    ELSE StrVal(text)

\* utils.py:116-141  an override applied when the variable is not empty
TruthyOverride(value, text) ==
    IF Truthy(text) THEN IntOrPass(value, text) ELSE value

\* models.py:375-387  an override applied when the variable is in os.environ
PresentOverride(value, text) ==
    IF text # Unset THEN IntOrPass(value, text) ELSE value

\* utils.py:116-118  CHI_LLM_PROVIDER_CONTEXT_WINDOW or CHI_LLM_PROVIDER_CONTEXT
ProviderContext(e) ==
    IF Truthy(e["CHI_LLM_PROVIDER_CONTEXT_WINDOW"])
    THEN e["CHI_LLM_PROVIDER_CONTEXT_WINDOW"]
    ELSE e["CHI_LLM_PROVIDER_CONTEXT"]

\* utils.py:84-141  the overrides of utils.load_config
UtilsEnvOverrides ==
    /\ "utils" \notin applied
    /\ overridden' =
          [overridden EXCEPT
             !.port = PortOverride(@, environ["CHI_LLM_PROVIDER_PORT"]),
             !.context_window = TruthyOverride(@, ProviderContext(environ)),
             !.n_gpu_layers =
                TruthyOverride(@, environ["CHI_LLM_PROVIDER_N_GPU_LAYERS"]),
             !.output_tokens =
                TruthyOverride(@, environ["CHI_LLM_PROVIDER_OUTPUT_TOKENS"])]
    /\ applied' = applied \cup {"utils"}
    /\ UNCHANGED <<environ, lower>>
    /\ UNCHANGED <<routerVars, facadeVars, configVars, registryVars>>

\* models.py:375-387  the overrides of ModelManager.load_config
ManagerEnvOverrides ==
    /\ "manager" \notin applied
    /\ overridden' =
          [overridden EXCEPT
             !.preferred_context =
                PresentOverride(@, environ["CHI_LLM_CONTEXT"]),
             !.preferred_max_tokens =
                PresentOverride(@, environ["CHI_LLM_MAX_TOKENS"])]
    /\ applied' = applied \cup {"manager"}
    /\ UNCHANGED <<environ, lower>>
    /\ UNCHANGED <<routerVars, facadeVars, configVars, registryVars>>

OverrideNext == UtilsEnvOverrides \/ ManagerEnvOverrides

\* the integer keys as configuration files set them
FileIntegers ==
    [port |-> IntVal(1234), context_window |-> IntVal(2048),
     n_gpu_layers |-> IntVal(8), output_tokens |-> IntVal(256),
     preferred_context |-> IntVal(16384), preferred_max_tokens |-> IntVal(1024)]

\* any subset of the variables set, all to the same text
OverrideInit ==
    /\ \E text \in EnvTexts, set \in SUBSET IntVariables :
          environ = [v \in IntVariables |-> IF v \in set THEN text ELSE Unset]
    /\ lower \in {BuiltinIntegers, FileIntegers}
    /\ overridden = lower
    /\ applied = {}
    /\ RouterUnused
    /\ FacadeUnused
    /\ ConfigUnused
    /\ RegistryUnused

SpecOverride == OverrideInit /\ [][OverrideNext]_vars

(***************************************************************************)
(* Threads calling generate, chat and complete on facades that share the   *)
(* loaded runtime.                                                         *)
(***************************************************************************)
\* a facade for the default local model after its constructor has returned,
\* holding the first runtime the process loaded
ReadyLocal ==
    [InitFacade([temperature |-> "0.7", model_id |-> Unset,
                 model_path |-> Unset],
                [EmptyFs EXCEPT !.cached = {MODEL_FILE}], EmptyEnv)
       EXCEPT !.llm = 1]

\* every thread has constructed its facade; one of them loaded the runtime
CallersInit ==
    /\ env = EmptyEnv
    /\ fs = [EmptyFs EXCEPT !.cached = {MODEL_FILE}]
    /\ sequential = FALSE
    /\ pc = [i \in 1..MaxThreads |-> "ready"]
    /\ self = [i \in 1..MaxThreads |-> ReadyLocal]
    /\ _model_instance = 1
    /\ _model_lock = 0
    /\ _generation_lock = 0
    /\ downloads = <<>>
    /\ \E t \in 1..MaxThreads : loads = <<[by |-> t, path |-> MODEL_FILE]>>
    /\ RouterUnused
    /\ ConfigUnused
    /\ RegistryUnused
    /\ OverrideUnused

CallersNext ==
    \/ \E i \in Instances, o \in Ops : FacadeCall(i, o)
    \/ \E i \in Instances : AcquireGenerationLock(i)
    \/ \E i \in Instances : InferenceEnds(i)

\* core.py:405, 450, 492  every runtime invocation terminates, and a thread
\* blocked in the with statement gets the lock when it is released again
\* and again
CallersFairness ==
    \A i \in 1..MaxThreads :
        /\ WF_vars(InferenceEnds(i))
        /\ SF_vars(AcquireGenerationLock(i))

SpecCallersLive == CallersInit /\ [][CallersNext]_vars /\ CallersFairness

(***************************************************************************)
(* Claims about the ProviderRouter.                                        *)
(***************************************************************************)
\* the call got past _sorted_profiles
Dispatching ==
    \/ rpc \in {"iter", "call"}
    \/ rpc = "done" /\ outcome \in {"returned", "RuntimeError"}

Range(s) == { s[k] : k \in 1..Len(s) }

Attempted == Range(constructed) \cup { invoked[k].profile : k \in 1..Len(invoked) }

\* the priority the claim assigns to a profile: its own, or 100 when missing
ClaimedPriority(p) == IF p.priority.given THEN p.priority.val ELSE 100

\* C1: with a non-empty tags list only profiles whose tags intersect it are
\* constructed or invoked; with no tags every profile is a candidate; the
\* candidates are attempted in ascending priority order, a missing priority
\* counting as 100.
C1_TagsThenPriority ==
    /\ \A i \in Attempted :
          wanted # {} => (profiles[i].tags \cap wanted) # {}
    /\ (Dispatching /\ wanted = {}) => Range(candidates) = 1..Len(profiles)
    /\ (Dispatching /\ wanted # {}) =>
          Range(candidates) =
             { i \in 1..Len(profiles) : (profiles[i].tags \cap wanted) # {} }
    /\ Dispatching =>
          \A k, l \in 1..Len(candidates) :
             k < l => ClaimedPriority(profiles[candidates[k]])
                        <= ClaimedPriority(profiles[candidates[l]])
    /\ \A k, l \in 1..Len(constructed) :
          k < l => ClaimedPriority(profiles[constructed[k]])
                     <= ClaimedPriority(profiles[constructed[l]])
    /\ \A k, l \in 1..Len(invoked) :
          k < l => ClaimedPriority(profiles[invoked[k].profile])
                     <= ClaimedPriority(profiles[invoked[l].profile])

\* a call with tags ["quality"] on profiles tagged fast and quality has
\* attempted the quality profile alone and returned its text
C1_Witness ==
    /\ rpc = "done"
    /\ outcome = "returned"
    /\ wanted = {"quality"}
    /\ Len(profiles) = 2
    /\ \E i, j \in 1..2 :
          /\ profiles[i].tags = {"fast"}
          /\ profiles[i].type = "ollama"
          /\ profiles[j].tags = {"quality"}
          /\ ~profiles[j].priority.given
          /\ Attempted = {j}

\* C2: when the first candidate raises on generate the second is attempted
\* and, if it succeeds, its text is the result of the call; no candidate is
\* invoked more than once during the call.
C2_FallbackWithoutRetry ==
    op = "generate" =>
      /\ \A k, l \in 1..Len(invoked) :
            k # l => invoked[k].profile # invoked[l].profile
      /\ (rpc = "done" /\ Len(invoked) >= 1 /\ ~invoked[1].ok) =>
            \/ Len(invoked) >= 2
            \/ /\ outcome = "RuntimeError"
               /\ \A k \in 1..Len(candidates) :
                     profiles[candidates[k]].type \in default_registry
                        => candidates[k] \in Range(constructed)
      /\ (rpc = "done" /\ Len(invoked) >= 2 /\ ~invoked[1].ok /\ invoked[2].ok) =>
            /\ outcome = "returned"
            /\ result = invoked[2].text

\* generate: the first candidate raised, the second returned "OK"
C2_Witness ==
    /\ op = "generate"
    /\ rpc = "done"
    /\ Len(invoked) = 2
    /\ ~invoked[1].ok
    /\ invoked[2].ok
    /\ result = "OK"

\* a profile the dispatch could use: a mapping with an integer-like (or
\* missing) priority, a registered type and matching tags
Usable(i) ==
    /\ profiles[i].mapping
    /\ profiles[i].priority.intlike
    /\ profiles[i].type \in default_registry
    /\ TagMatch(profiles[i], wanted)

\* C3: an unusable profile (no factory, factory raises, non-mapping entry,
\* non-integer priority) only drops out of the candidates: the call still ends
\* with a returned text or the aggregate failure, and it fails only after
\* every usable profile has been attempted.
C3_UnusableProfileOnlyExcluded ==
    rpc = "done" =>
      /\ outcome \in {"returned", "RuntimeError"}
      /\ outcome = "RuntimeError" =>
            \A i \in 1..Len(profiles) : Usable(i) => i \in Range(constructed)

\* C4: when no candidate succeeds (all failed, none matched, none could be
\* constructed) the call raises the aggregate RuntimeError and returns no text.
C4_AggregateFailure ==
    (rpc = "done" /\ \A k \in 1..Len(invoked) : ~invoked[k].ok) =>
      /\ outcome = "RuntimeError"
      /\ result = NoText

(***************************************************************************)
(* Claims about the facade.                                                *)
(***************************************************************************)
\* the configuration utils.load_config resolves to in the current state
Resolved == utils_load_config(fs, env)

NamesExternal ==
    \/ Resolved.provider.type \in ExternalTypes
    \/ Resolved.provider_profiles = "some"

\* C5: when the resolved configuration names an external provider type or a
\* non-empty provider_profiles list, constructing a facade never downloads a
\* local model file and never loads the local runtime.
C5_ExternalNeverLoadsLocal ==
    NamesExternal => (downloads = <<>> /\ loads = <<>>)

Constructed(i) == pc[i] \in {"ready", "genlock", "inference"}

\* C6: however many facades for the default local model are constructed, in
\* any interleaving, the runtime is loaded at most once and every constructed
\* facade holds that one handle, whatever its temperature.
C6_SingletonLoadedOnce ==
    /\ Len(loads) <= 1
    /\ \A i \in Instances :
          Constructed(i) => (self[i].llm # 0 /\ self[i].llm = _model_instance)
    /\ \A i, j \in Instances :
          (Constructed(i) /\ Constructed(j)) => self[i].llm = self[j].llm

\* two facades with different temperatures hold the handle of the one load
C6_Witness ==
    /\ ~sequential
    /\ Len(loads) = 1
    /\ \E i, j \in Instances :
          /\ Constructed(i) /\ Constructed(j)
          /\ self[i].temperature # self[j].temperature
          /\ self[i].llm = 1 /\ self[j].llm = 1

\* C7: at most one thread is inside the local runtime at any moment, and it
\* is the holder of the generation lock.
C7_InferenceSerialized ==
    /\ Cardinality({ i \in Instances : pc[i] = "inference" }) <= 1
    /\ \A i \in Instances : pc[i] = "inference" => _generation_lock = i

\* one thread is inside the runtime for generate while another, calling chat
\* on its own facade, waits for the lock
C7_Witness ==
    \E i, j \in Instances :
       /\ pc[i] = "inference" /\ self[i].calling = "generate"
       /\ pc[j] = "genlock" /\ self[j].calling = "chat"

\* the model a facade was explicitly asked for: the constructor's model_id,
\* else CHI_LLM_MODEL, else default_model of the project file
RequestedModel(i) ==
    IF self[i].args.model_id # Unset THEN self[i].args.model_id
    ELSE IF env.CHI_LLM_MODEL # Unset THEN env.CHI_LLM_MODEL
    ELSE IF fs.local.exists /\ fs.local.parses THEN fs.local.default_model
    ELSE Unset

\* C8: when the explicitly set default_model (or model_id) is not a registry
\* id, construction fails: no such facade is ever constructed holding a
\* runtime, be it the built-in default model or any other.
C8_UnknownExplicitModelFails ==
    \A i \in Instances :
       (pc[i] # "new" /\ RequestedModel(i) = UnknownId)
          => ~(Constructed(i) /\ self[i].llm # 0)

\* the registry id the project file or CHI_LLM_MODEL explicitly sets for a
\* facade constructed without model arguments
ConfiguredModel(i) ==
    IF self[i].args.model_id # Unset \/ self[i].model_path # Unset THEN Unset
    ELSE IF env.CHI_LLM_MODEL \in DOMAIN MODELS THEN env.CHI_LLM_MODEL
    ELSE IF /\ env.CHI_LLM_MODEL = Unset
            /\ fs.local.exists /\ fs.local.parses
            /\ fs.local.default_model \in DOMAIN MODELS
         THEN fs.local.default_model
    ELSE Unset

\* C9: a facade whose default_model is explicitly set to a registry id by the
\* project file or CHI_LLM_MODEL, and which loads the runtime itself, loads
\* it from that registry entry's file, whatever the model cache holds.
C9_LoadsConfiguredModel ==
    \A k \in 1..Len(loads) :
       LET i == loads[k].by
       IN ConfiguredModel(i) # Unset
            => loads[k].path = MODELS[ConfiguredModel(i)].filename

\* the provider block's model when its type is local
ProviderLocalModel ==
    IF Resolved.provider.type = "local" THEN Resolved.provider.model ELSE Unset

\* default_model as the environment or a configuration file sets it
ExplicitlySet ==
    IF env.CHI_LLM_MODEL # Unset THEN env.CHI_LLM_MODEL
    ELSE IF fs.local.exists /\ fs.local.parses THEN fs.local.default_model
    ELSE Unset

\* C10: the selector decides by first match: the explicitly set
\* default_model ("explicit default"), else the model of a provider block of
\* type local ("provider local fallback"), else the built-in default id
\* ("legacy default").
C10_DecisionOrder ==
    \A i \in Instances :
       self[i].decision # <<Unset, Unset>> =>
          self[i].decision =
             IF ExplicitlySet # Unset
             THEN <<ExplicitlySet, "explicit default">>
             ELSE IF ProviderLocalModel # Unset
             THEN <<ProviderLocalModel, "provider local fallback">>
             ELSE <<"gemma-270m", "legacy default">>

\* the resolved provider block is of type local and names a model_path
LocalPathConfigured ==
    /\ Resolved.provider.type = "local"
    /\ Resolved.provider.model_path # Unset

RequiredFieldMissing ==
    /\ Resolved.provider_profiles = Unset
    /\ Resolved.provider.type \in {"openai", "anthropic"}
    /\ (Resolved.provider.api_key = Unset \/ Resolved.provider.model = Unset)

\* C12: when the configured provider lacks a required field, construction
\* of the facade fails, before any network call, and no other backend or model
\* stands in for the requested one: no facade is ever constructed, nothing is
\* downloaded and no local runtime is loaded.
C12_MissingFieldFailsConstruction ==
    RequiredFieldMissing =>
      /\ \A i \in Instances : ~Constructed(i)
      /\ downloads = <<>>
      /\ loads = <<>>

\* the resolved configuration names one external provider and no profiles
SingleExternal ==
    /\ Resolved.provider.type \in ExternalTypes
    /\ Resolved.provider_profiles = Unset

\* C13: on a facade configured with a single external provider, a call is
\* answered by the adapter or raises RuntimeError; the local runtime never
\* answers; when the adapter could not be constructed every call raises; the
\* message of the error names the backend and, for an HTTP adapter whose
\* request failed, the base URL.
C13_ExternalFailureSurfaced ==
    SingleExternal =>
      \A i \in Instances :
         /\ pc[i] \notin {"genlock", "inference"}
         /\ self[i].path # Unset =>
              /\ self[i].path \in {"provider", "unavailable"}
              /\ self[i].path = "unavailable" => self[i].last = "RuntimeError"
              /\ self[i].last = "RuntimeError" =>
                    /\ "name" \in self[i].msg
                    /\ (self[i]._provider_type \in HttpTypes
                           /\ self[i]._provider_model # Unset
                           /\ self[i].event = "refused")
                          => "url" \in self[i].msg

\* C14: an adapter call that returns the empty string is a backend call that
\* succeeded with empty output; no failure inside the adapter comes back as "".
C14_NoFailureAsEmptyString ==
    \A i \in Instances :
       (self[i].path = "provider" /\ self[i].last = "")
          => self[i].event = "empty"

(***************************************************************************)
(* Claims about configuration resolution.                                  *)
(***************************************************************************)
\* the leaf keys looked at, and the value a configuration has for each
LeafKeys == {"cache_dir", "provider.model"}

LeafOf(cfg, k) ==
    IF k = "cache_dir" THEN cfg.cache_dir ELSE cfg.provider.model

\* the sources of load_config, lowest precedence first
Precedence ==
    <<"defaults", "project file", "config_path", "CHI_LLM_CONFIG",
      "CHI_LLM_PROVIDER_*">>

\* the value a source sets for a leaf key in the current state, Unset when
\* the source is not there or does not set the key
FileSets(file, k) ==
    IF file.exists /\ file.parses THEN LeafOf(file, k) ELSE Unset

SourceSets(src, k) ==
    CASE src = "defaults" ->
            IF k = "cache_dir" THEN DefaultCacheDir ELSE Unset
      [] src = "project file" ->
            FileSets(IF fs.yaml.exists THEN fs.yaml ELSE fs.local, k)
      [] src = "config_path" ->
            IF config_path = "path" THEN FileSets(fs.custom, k) ELSE Unset
      [] src = "CHI_LLM_CONFIG" ->
            IF env.CHI_LLM_CONFIG # Unset THEN FileSets(fs.envfile, k) ELSE Unset
      [] src = "CHI_LLM_PROVIDER_*" ->
            IF k = "provider.model" THEN env.CHI_LLM_PROVIDER_MODEL ELSE Unset

\* what load_config has to have returned for the files and the environment
\* of the current state
HigherSourceWins ==
    \A k \in LeafKeys :
        \A hi \in 1..Len(Precedence) :
            ( /\ SourceSets(Precedence[hi], k) # Unset
              /\ \A j \in (hi + 1)..Len(Precedence) :
                    SourceSets(Precedence[j], k) = Unset )
            => LeafOf(merged, k) = SourceSets(Precedence[hi], k)

\* C15: in load_config, for a leaf key set by two sources the merged value
\* is never the one of the lower-precedence source: defaults < project file
\* of the working directory < explicit config path < CHI_LLM_CONFIG <
\* CHI_LLM_PROVIDER_*; so every call of load_config returns, for each key,
\* the value of the highest source that sets it, and the explicit path wins
\* over the discovered file.
C15_HigherSourceWins ==
    [][(\E path \in {Unset, "path"} : LoadConfig(path)) => HigherSourceWins']_vars

\* the explicit path and the discovered file both set provider.model and
\* cache_dir, nothing higher does, and load_config returned the path's values
C15_Witness ==
    /\ config_path = "path"
    /\ written = <<>>
    /\ fs.local.exists /\ ~fs.yaml.exists /\ fs.custom.exists
    /\ fs.local.provider.model = "llama3"
    /\ env.CHI_LLM_CONFIG = Unset /\ env.CHI_LLM_PROVIDER_MODEL = Unset
    /\ merged.provider.model = "phi3"
    /\ merged.cache_dir = "/cache/custom"

\* a source file that is read and sets default_model
SetsModel(file) == file.exists /\ file.parses /\ file.default_model # Unset

\* the discovered project file and the file CHI_LLM_CONFIG names both set
\* default_model, and nothing else does
ProjectAndEnvFile ==
    /\ SetsModel(fs.local) /\ fs.local.format = "json"
    /\ env.CHI_LLM_CONFIG = "path"
    /\ SetsModel(fs.envfile) /\ fs.envfile.format = "json"
    /\ "custom" \notin _mgr.config_paths /\ ~fs.global.exists
    /\ env.CHI_LLM_MODEL = Unset

\* C16: when a discovered project file and the file named by CHI_LLM_CONFIG
\* both set default_model, a ModelManager in project-first mode resolves to
\* the discovered file's value and one in env-first mode to the value of the
\* CHI_LLM_CONFIG file.
C16_ModeDecidesWinner ==
    (cpc = "resolved" /\ ProjectAndEnvFile) =>
        _mgr.config.default_model =
            IF _mgr.resolution_mode = "env-first"
            THEN fs.envfile.default_model ELSE fs.local.default_model

\* the discovered project file and the global file both set default_model,
\* and nothing else does
ProjectAndGlobal ==
    /\ SetsModel(fs.local) /\ fs.local.format = "json"
    /\ SetsModel(fs.global) /\ fs.global.format = "json"
    /\ env.CHI_LLM_CONFIG = Unset
    /\ "custom" \notin _mgr.config_paths
    /\ env.CHI_LLM_MODEL = Unset

\* C17: the global file has lower priority than any closer-scoped source:
\* when a discovered project file and the global file both set
\* default_model, a ModelManager resolves to the project file's value,
\* with allow_global enabled or not.
C17_GlobalIsLowest ==
    (cpc = "resolved" /\ ProjectAndGlobal) =>
        _mgr.config.default_model = fs.local.default_model

\* the config_path the manager of the session was constructed with
CustomPath == IF "custom" \in _mgr.config_paths THEN "path" ELSE Unset

\* allow_global as the environment and the discovered project files state it
AllowGlobalEnabled ==
    \/ env.CHI_LLM_ALLOW_GLOBAL = "1"
    \/ /\ env.CHI_LLM_ALLOW_GLOBAL = Unset
       /\ \/ (fs.local.exists /\ fs.local.parses
                 /\ fs.local.allow_global = "true")
          \/ (~fs.local.exists /\ fs.ancestor.exists /\ fs.ancestor.parses
                 /\ fs.ancestor.allow_global = "true")

\* C18: unless allow_global is enabled, by CHI_LLM_ALLOW_GLOBAL or, when that
\* is unset, by the flag of a discovered project file, no key of the
\* configuration a ModelManager resolves is influenced by the global file:
\* the configuration is the one resolved without that file.
C18_GlobalOnlyWhenAllowed ==
    (cpc = "resolved" /\ ~AllowGlobalEnabled) =>
        _mgr.config =
            ModelManager(CustomPath, [fs EXCEPT !.global = Absent], env).config

\* a global file sets default_model, nothing closer does, allow_global is not
\* enabled, and the resolved configuration has the built-in default
C18_Witness ==
    /\ cpc = "resolved"
    /\ ~AllowGlobalEnabled
    /\ SetsModel(fs.global) /\ fs.global.default_model = "m2"
    /\ ~fs.local.exists /\ ~fs.ancestor.exists
    /\ "custom" \notin _mgr.config_paths
    /\ env.CHI_LLM_CONFIG = Unset /\ env.CHI_LLM_MODEL = Unset
    /\ _mgr.config.default_model = BuiltinDefault
    /\ _mgr.config.cache_dir = Unset

\* C19: after a value is written with the set operation in scope local or
\* global, a configuration resolved again from scratch has that value for
\* the key and reports the scope of the write as its source.
C19_SetRoundTrip ==
    (cpc = "resolved" /\ written # <<>>) =>
        LET w == written[Len(written)]
        IN /\ _mgr.config[w.key] = w.value
           /\ config_source(_mgr, fs, env) = w.scope

\* the file system with every YAML file rewritten as JSON, the mapping kept
\* (.chi_llm.yaml becomes .chi_llm.json when there is no .chi_llm.json yet)
AsJson(file) == IF file.exists THEN [file EXCEPT !.format = "json"] ELSE file

RewrittenAsJson(f) ==
    LET moved == f.yaml.exists /\ ~f.local.exists
    IN [f EXCEPT !.local = IF moved THEN AsJson(f.yaml) ELSE f.local,
                 !.yaml = IF moved THEN Absent ELSE f.yaml,
                 !.ancestor = AsJson(f.ancestor),
                 !.envfile = AsJson(f.envfile),
                 !.custom = AsJson(f.custom),
                 !.global = AsJson(f.global)]

\* C20: a configuration file is resolved identically whether it is written
\* as JSON or as YAML: the configuration a ModelManager resolves, with its
\* effective default_model and provider block, and the configuration
\* load_config returned are the ones resolved from the same mappings
\* written as JSON.
C20_FormatIndependent ==
    /\ cpc = "resolved" =>
          _mgr.config =
              ModelManager(CustomPath, RewrittenAsJson(fs), env).config
    /\ (config_path # NotCalled /\ written = <<>>) =>
          merged = utils_load_config_at(RewrittenAsJson(fs), env, config_path)

(***************************************************************************)
(* Claims about provenance, recommendation and the provider setter.        *)
(***************************************************************************)
SourceLabels == {"env", "local", "project", "global", "custom", "default"}

\* the default_model values the source named by a label supplies in the
\* current state
SuppliedBy(label) ==
    CASE label = "env" ->
            (IF env.CHI_LLM_MODEL \in DOMAIN MODELS
             THEN {env.CHI_LLM_MODEL} ELSE {})
            \cup (IF env.CHI_LLM_CONFIG = "path" /\ SetsModel(fs.envfile)
                  THEN {fs.envfile.default_model} ELSE {})
      [] label = "local" ->
            IF SetsModel(fs.local) THEN {fs.local.default_model} ELSE {}
      [] label = "project" ->
            IF SetsModel(fs.ancestor) THEN {fs.ancestor.default_model} ELSE {}
      [] label = "global" ->
            IF SetsModel(fs.global) THEN {fs.global.default_model} ELSE {}
      [] label = "custom" ->
            IF SetsModel(fs.custom) THEN {fs.custom.default_model} ELSE {}
      [] label = "default" -> {BuiltinDefault}

\* C21: the provenance reported with a resolved configuration is one of env,
\* local, project, global, custom, default and names the source that
\* produced the effective default_model: the effective value is a value that
\* source supplies.
C21_ProvenanceNamesProducer ==
    cpc = "resolved" =>
        LET label == config_source(_mgr, fs, env)
        IN /\ label \in SourceLabels
           /\ _mgr.config.default_model \in SuppliedBy(label)

\* the entries the recommendation may choose from
Entries == {Registry[i] : i \in 1..Len(Registry)}

TaggedFitting == {m \in Entries : m.recommended /\ Fits(m, available_ram)}

Lowest(ms) == {m \in ms : \A n \in ms : m.ram <= n.ram}

\* C22: recommend_model returns the lowest-RAM entry tagged "recommended"
\* whose recommended_ram_gb is at most 0.7 times the available RAM, and when
\* no tagged entry fits, the entry with the smallest recommended_ram_gb of
\* the whole Registry.
C22_RecommendLowestFitting ==
    best_model # NotRecommended =>
        best_model \in
            { m.id : m \in IF TaggedFitting # {}
                           THEN Lowest(TaggedFitting) ELSE Lowest(Entries) }

\* the top-level keys of a configuration file other than provider
OtherKeys ==
    {"default_model", "allow_global", "resolution_mode", "cache_dir",
     "provider_profiles"}

\* between two file systems only files of the two scopes differ, and a file
\* that differs has every key other than provider as json.loads read it from
\* the file before: its value when the file held it, absent otherwise
ProviderFrame(before, after) ==
    \A s \in DOMAIN before :
        after[s] # before[s] =>
            /\ s \in ConfigScopes
            /\ after[s].exists /\ after[s].parses /\ after[s].format = "json"
            /\ \A k \in OtherKeys :
                  after[s][k] = IF before[s].exists /\ JsonLoad(before[s]).parses
                                THEN before[s][k] ELSE Unset

\* C23: setting the provider, with the command line or with the TUI store,
\* changes only the provider key of the target file: every other top-level
\* key stored in the file keeps its value and no key the file did not hold
\* is added; no other file changes.
C23_OnlyProviderChanges ==
    [][(\E scope \in ConfigScopes, provider \in SetProviders :
            set_provider(scope, provider) \/ cmd_providers_set(scope, provider))
        => ProviderFrame(fs, fs')]_vars

\* a local file with default_model and cache_dir got its provider replaced
C23_Witness ==
    /\ written # <<>>
    /\ written[1].scope = "local" /\ written[1].key = "provider"
    /\ fs.local.default_model = ModelIn("local")
    /\ fs.local.cache_dir = CacheDirIn("local")
    /\ fs.local.provider.type = written[1].value
    /\ fs.local.provider.model # ProviderModelIn("local")

(***************************************************************************)
(* Claims about sequential dispatch and the fixed dispatch path.           *)
(***************************************************************************)
\* the place of a candidate in the candidate order
PlaceOf(i) == CHOOSE k \in 1..Len(candidates) : candidates[k] = i

\* the candidates whose adapter was invoked, in the order of the calls
InvokedProfiles == [k \in 1..Len(invoked) |-> invoked[k].profile]

InCandidateOrder(s) ==
    \A k, l \in 1..Len(s) :
        k < l => /\ s[k] \in Range(candidates) /\ s[l] \in Range(candidates)
                 /\ PlaceOf(s[k]) < PlaceOf(s[l])

\* C24: within one Router call the candidates are constructed and invoked
\* one at a time in candidate order: an adapter is invoked right after it
\* was constructed, before any later candidate is constructed; once a
\* candidate has returned, no later candidate is constructed or invoked, so
\* at most one candidate completes the operation.
C24_OneAtATime ==
    /\ InCandidateOrder(constructed)
    /\ InCandidateOrder(InvokedProfiles)
    /\ Range(InvokedProfiles) \subseteq Range(constructed)
    /\ \A k \in 1..Len(invoked) : invoked[k].ok => k = Len(invoked)
    /\ (invoked # <<>> /\ invoked[Len(invoked)].ok) =>
          /\ rpc \in {"done", "idle"}
          /\ constructed[Len(constructed)] = invoked[Len(invoked)].profile
    /\ rpc = "call" =>
          /\ constructed # <<>>
          /\ constructed[Len(constructed)] = candidates[idx]
          /\ candidates[idx] \notin Range(InvokedProfiles)
    /\ (rpc = "iter" /\ idx <= Len(candidates)) =>
          \A i \in Range(constructed) : PlaceOf(i) < idx

\* the first of two constructed candidates returned and the second was never
\* constructed
C24_Witness ==
    /\ rpc = "done"
    /\ outcome = "returned"
    /\ Len(candidates) = 2
    /\ constructed = <<candidates[1]>>
    /\ Len(invoked) = 1 /\ invoked[1].ok
    /\ profiles[candidates[2]].type \in default_registry

\* the dispatch path the attributes set by the constructor select
PathOf(me) ==
    IF me._router THEN "router"
    ELSE IF me._provider THEN "provider"
    ELSE IF me._provider_type # Unset THEN "unavailable"
    ELSE "local"

\* C25: the dispatch path of a facade is chosen once, at construction, and
\* never changes: every call made on it so far, whichever operation it was
\* and whether it returned or raised, was served through the one path the
\* constructor selected, and so is the call in progress.
C25_PathFixed ==
    \A i \in Instances :
        /\ self[i].served \subseteq {PathOf(self[i])}
        /\ self[i].path # Unset => self[i].path = PathOf(self[i])
        /\ pc[i] \in {"genlock", "inference"} => PathOf(self[i]) = "local"

\* a facade is in a local inference after an earlier call of it raised
C25_Witness ==
    \E i \in Instances :
        /\ pc[i] = "inference"
        /\ self[i].last = "RuntimeError"
        /\ self[i].served = {"local"}
        /\ ~self[i]._router /\ ~self[i]._provider

(***************************************************************************)
(* Claims about the merge, malformed files and environment overrides.      *)
(***************************************************************************)
\* the keys of the nested provider mapping
ProviderKeys == DOMAIN NoProvider

\* the value a file sets for a key of provider, Unset when it sets none
ProviderSets(file, k) ==
    IF file.exists /\ file.parses THEN file.provider[k] ELSE Unset

\* the value a source of utils.load_config sets for a key of provider
UtilsProviderSets(src, k) ==
    CASE src = "defaults" -> Unset
      [] src = "project file" ->
            ProviderSets(IF fs.yaml.exists THEN fs.yaml ELSE fs.local, k)
      [] src = "config_path" ->
            IF config_path = "path" THEN ProviderSets(fs.custom, k) ELSE Unset
      [] src = "CHI_LLM_CONFIG" ->
            IF env.CHI_LLM_CONFIG # Unset THEN ProviderSets(fs.envfile, k)
            ELSE Unset
      [] src = "CHI_LLM_PROVIDER_*" -> ProviderEnv(env)[k]

\* the value of the last entry of a list of values that is set
RECURSIVE LastSet(_)
LastSet(values) ==
    IF values = <<>> THEN Unset
    ELSE IF values[Len(values)] # Unset THEN values[Len(values)]
    ELSE LastSet(SubSeq(values, 1, Len(values) - 1))

\* utils.load_config: every key of provider has the value of the highest
\* source that sets that key, and the list provider_profiles is the list of
\* the highest file that has one
UtilsMergeRecurses ==
    config_path # NotCalled =>
        /\ \A k \in ProviderKeys :
              merged.provider[k] =
                 LastSet([n \in 1..Len(Precedence) |->
                            UtilsProviderSets(Precedence[n], k)])
        /\ merged.provider_profiles \in
              {Unset} \cup { f.provider_profiles :
                               f \in {fs.local, fs.custom, fs.envfile} }

\* the files a manager applied, lowest precedence first
AppliedFiles(mgr) ==
    LET order == SourcesFor(mgr.resolution_mode, mgr.allow_global)
    IN [n \in 1..Len(order) |->
          SourceFile(Reachable(mgr.config_paths, fs), env, order[n])]

\* ModelManager: every key of provider has the value of the last applied
\* file that sets that key
ManagerMergeRecurses ==
    cpc = "resolved" =>
        \A k \in ProviderKeys :
            _mgr.config.provider[k] =
               LastSet([n \in 1..Len(AppliedFiles(_mgr)) |->
                          ProviderSets(AppliedFiles(_mgr)[n], k)])

\* C26: merging the configuration sources recurses into nested mappings:
\* keys set under provider by different sources all survive in the merged
\* configuration, each with the value of the highest source that sets it,
\* while a leaf, a list included, is the one of the higher source whole.
C26_MergeRecurses == UtilsMergeRecurses /\ ManagerMergeRecurses

\* the file system with every malformed file taken away
Skipped(file) == IF file.exists /\ ~file.parses THEN Absent ELSE file

WithoutMalformed(f) ==
    [f EXCEPT !.local = Skipped(f.local), !.yaml = Skipped(f.yaml),
              !.ancestor = Skipped(f.ancestor), !.envfile = Skipped(f.envfile),
              !.custom = Skipped(f.custom), !.global = Skipped(f.global)]

SomeMalformed(f) == WithoutMalformed(f) # f

\* utils.load_config returned what the well-formed files alone produce
UtilsSkipsMalformed ==
    config_path # NotCalled =>
        merged = utils_load_config_at(WithoutMalformed(fs), env, config_path)

\* a new ModelManager resolved what the well-formed files alone produce
ManagerSkipsMalformed ==
    cpc = "resolved" =>
        _mgr.config = ModelManager(CustomPath, WithoutMalformed(fs), env).config

\* C27: a malformed configuration file does not abort the resolution: the
\* file is skipped and the merged result, of utils.load_config and of a
\* ModelManager, equals what the remaining sources alone produce.
C27_MalformedSkipped == UtilsSkipsMalformed /\ ManagerSkipsMalformed

\* the key each variable overrides and the resolver that applies it
KeyOf(v) ==
    CASE v = "CHI_LLM_PROVIDER_PORT" -> "port"
      [] v = "CHI_LLM_PROVIDER_CONTEXT_WINDOW" -> "context_window"
      [] v = "CHI_LLM_PROVIDER_CONTEXT" -> "context_window"
      [] v = "CHI_LLM_PROVIDER_N_GPU_LAYERS" -> "n_gpu_layers"
      [] v = "CHI_LLM_PROVIDER_OUTPUT_TOKENS" -> "output_tokens"
      [] v = "CHI_LLM_CONTEXT" -> "preferred_context"
      [] v = "CHI_LLM_MAX_TOKENS" -> "preferred_max_tokens"

\* the variables that set a key
VariablesOf(k) == { v \in IntVariables : KeyOf(v) = k }

\* C28: an environment override whose value fails integer coercion is
\* dropped: when every variable given for a key fails int(), the key keeps
\* the value of the lower-precedence sources after the overrides were
\* applied, and is not zero.
C28_BadIntegerDropped ==
    applied = {"utils", "manager"} =>
        \A k \in DOMAIN lower :
            ( /\ \E v \in VariablesOf(k) : environ[v] # Unset
              /\ \A v \in VariablesOf(k) :
                    environ[v] # Unset => ~ParseInt(environ[v]).ok )
            => /\ overridden[k] = lower[k]
               /\ overridden[k] # IntVal(0)

(***************************************************************************)
(* Claims about the shared runtime handle and the generation lock.         *)
(***************************************************************************)
\* the local model a facade was constructed for
EffectiveModel(me) == <<me.model_id, me.model_path>>

\* a facade that dispatches to the local runtime and holds a handle
HoldsRuntime(i) ==
    /\ pc[i] \in {"ready", "genlock", "inference"}
    /\ ~self[i]._router /\ ~self[i]._provider /\ self[i]._provider_type = Unset
    /\ self[i].llm # 0

\* C29: the process-wide runtime handle is shared only among facades whose
\* effective local model is the one that was loaded: two facades that hold
\* the same handle were constructed for the same model_id and model_path, so
\* a facade for a different model is served by a runtime of its own.
C29_HandleSharedOnlyForSameModel ==
    \A i, j \in Instances :
        (HoldsRuntime(i) /\ HoldsRuntime(j) /\ self[i].llm = self[j].llm)
            => EffectiveModel(self[i]) = EffectiveModel(self[j])

\* the lock is held only by a thread that is inside the runtime
LockFreeWhenIdle ==
    /\ _generation_lock # 0 => pc[_generation_lock] = "inference"
    /\ (\A i \in Instances : pc[i] # "inference") => _generation_lock = 0

====
